---- MODULE Spec2Model ----
(***************************************************************************)
(* A model of the wanga schema engine (wanga/schema): normalization of     *)
(* annotations, extraction of a schema from a callable, evaluation of      *)
(* untrusted JSON against a schema node tree and projection of a node tree *)
(* into a tool-declaration document, together with the tool loop, the      *)
(* model selection and the active Runtime of wanga/runtime.py and the      *)
(* retry policy of wanga/models/openai.py.                                 *)
(*                                                                         *)
(* Python values are tagged records, one payload field name per kind, so   *)
(* that two values of different kinds are always comparable:               *)
(*   None  [k |-> "null"]            bool  [k |-> "bool",  b |-> TRUE]      *)
(*   int   [k |-> "int",  i |-> 1]   float [k |-> "float", h |-> 3]        *)
(*   str   [k |-> "str",  s |-> "a"] list  [k |-> "list",  items |-> <<>>] *)
(*   dict  [k |-> "dict", entries |-> << [key |-> "a", val |-> v], .. >>]  *)
(* A float carries twice its value (h = 3 is 1.5), which keeps the floats  *)
(* the model needs exact.  Dict entries keep their insertion order.        *)
(***************************************************************************)
EXTENDS Integers, Sequences, FiniteSets, TLC

VARIABLES
    node,       \* the schema node an operation is applied to
    value,      \* the JSON value handed to eval
    hint,       \* the parent_hint handed to json_schema
    op,         \* "idle" before the operation, then the operation's name
    result,     \* what the operation returned or raised
    state,      \* the InvocationState of call_and_use_tools
    run,        \* where the tool loop is, its model calls, what it raised
    seen,       \* what has been observed of the model's responses
    turn,       \* the latest turn of the tool loop: the state before, the response
    selection,  \* a Runtime, the model it selected for an execution, the models called
    context,    \* the context variable _global_runtime, its tokens, the open blocks
    request,    \* one call of OpenAIModel.reply and its attempts
    callable,   \* a CallableSchema, as extracted and as it is now, and its calls
    extraction, \* one call of SchemaExtractor.extract_schema
    norm        \* one annotation and its normalizations

schemaVars == <<node, value, hint, op, result>>
runtimeVars == <<state, run, seen, turn, selection, context>>
replyVars == <<request>>
callableVars == <<callable>>
extractionVars == <<extraction>>
normalizeVars == <<norm>>

-----------------------------------------------------------------------------
(* Bounds of the model.                                                    *)

MaxLen == 2         \* longest JSON list
MaxOptions == 3     \* most alternatives of a Union node
MaxFields == 2      \* most fields of an Object node
MaxKeys == 2        \* most keys of a JSON object

-----------------------------------------------------------------------------
(* JSON and native values.                                                 *)

JNull == [k |-> "null"]
JBool(x) == [k |-> "bool", b |-> x]
JInt(n) == [k |-> "int", i |-> n]
JFloat2(n) == [k |-> "float", h |-> n]
JStr(x) == [k |-> "str", s |-> x]
JList(xs) == [k |-> "list", items |-> xs]
JDict(es) == [k |-> "dict", entries |-> es]
Entry(name, v) == [key |-> name, val |-> v]

\* Placeholder for the value of an operation that raised.
NoVal == [k |-> "raised"]

\* tuple(...) and the object a constructor call builds.
PyTuple(xs) == [k |-> "tuple", items |-> xs]
Constructed(fn, args, kwargs) == [k |-> "obj", fn |-> fn, args |-> args, kwargs |-> kwargs]

\* isinstance(value, t) for the four primitive types; bool is a subclass of int.
IsInstance(v, t) ==
    CASE t = "int" -> v.k \in {"int", "bool"}
      [] t = "float" -> v.k = "float"
      [] t = "str" -> v.k = "str"
      [] t = "bool" -> v.k = "bool"
      [] OTHER -> FALSE

\* Twice the numeric value of an int, bool or float.
Twice(v) ==
    CASE v.k = "int" -> 2 * v.i
      [] v.k = "bool" -> (IF v.b THEN 2 ELSE 0)
      [] v.k = "float" -> v.h
      [] OTHER -> 0

\* float(value) for an int or a bool.
PyFloat(v) == JFloat2(Twice(v))

IsNumber(v) == v.k \in {"int", "bool", "float"}

\* Python's == between a JSON value and a scalar constant: numbers compare by
\* value across int, float and bool; everything else by kind and payload.
PyEq(x, y) ==
    IF IsNumber(x) /\ IsNumber(y) THEN Twice(x) = Twice(y)
    ELSE x = y

\* `value in options` for a list of scalar constants.
PyIn(v, options) == \E j \in 1..Len(options) : PyEq(v, options[j])

-----------------------------------------------------------------------------
(* Hints: None or a string.  `if hint:` is false for None and for "".      *)

NoHint == [some |-> FALSE, text |-> ""]
Hint(x) == [some |-> TRUE, text |-> x]
Truthy(h) == h.some /\ h.text # ""

-----------------------------------------------------------------------------
(* Schema nodes.                                                           *)

NoneOption == [t |-> "None"]
UndefinedNode == [t |-> "Undefined"]
PrimitiveNode(p) == [t |-> "Primitive", primitive_type |-> p]
SequenceNode(item) == [t |-> "Sequence", item_schema |-> item]
TupleNode(items) == [t |-> "Tuple", item_schemas |-> items]
MappingNode(ks, vs) == [t |-> "Mapping", key_schema |-> ks, value_schema |-> vs]
UnionNode(options) == [t |-> "Union", options |-> options]
LiteralNode(options) == [t |-> "Literal", options |-> options]
ObjectField(name, schema, h, required) ==
    [name |-> name, schema |-> schema, hint |-> h, required |-> required]
\* constructor_fn is the constructor's name and whether calling it raises;
\* pos_only is what eval reads off constructor_signature.
ObjectNode(name, raises, pos_only, fields, h) ==
    [t |-> "Object", name |-> name, raises |-> raises, pos_only |-> pos_only,
     fields |-> fields, hint |-> h]

\* CallableSchema: the schema of a call, of its return value, and the long
\* description.
CallableSchema(call_schema, return_schema, long_description) ==
    [call_schema |-> call_schema, return_schema |-> return_schema,
     long_description |-> long_description]

-----------------------------------------------------------------------------
(* Evaluation.  An outcome is the status ("ok" or the exception raised),   *)
(* the value returned and the constructor calls made on the way, in order. *)

Ok(v, calls) == [status |-> "ok", val |-> v, calls |-> calls]
Raise(e, calls) == [status |-> e, val |-> NoVal, calls |-> calls]
Call(fn, args, kwargs) == [fn |-> fn, args |-> args, kwargs |-> kwargs]

RECURSIVE Eval(_, _)
RECURSIVE EvalItems(_, _, _, _)
RECURSIVE UnionLoop(_, _, _)
RECURSIVE ObjectLoop(_, _, _, _, _, _)

PrimitiveNode_eval(n, v) ==
    IF ~IsInstance(v, n.primitive_type)
    THEN IF n.primitive_type = "float" /\ IsInstance(v, "int")
         THEN Ok(PyFloat(v), <<>>)
         ELSE Raise("SchemaValidationError", <<>>)
    ELSE Ok(v, <<>>)

\* Evaluates items[j] against schemas[j] left to right and stops at the first
\* exception, as a comprehension does.
EvalItems(schemas, items, acc, calls) ==
    IF items = <<>> THEN [status |-> "ok", vals |-> acc, calls |-> calls]
    ELSE LET r == Eval(Head(schemas), Head(items))
         IN  IF r.status # "ok"
             THEN [status |-> r.status, vals |-> acc, calls |-> calls \o r.calls]
             ELSE EvalItems(Tail(schemas), Tail(items), Append(acc, r.val),
                            calls \o r.calls)

SequenceNode_eval(n, v) ==
    IF v.k # "list" THEN Raise("SchemaValidationError", <<>>)
    ELSE LET r == EvalItems([j \in 1..Len(v.items) |-> n.item_schema], v.items, <<>>, <<>>)
         IN  IF r.status = "ok" THEN Ok(JList(r.vals), r.calls)
             ELSE Raise(r.status, r.calls)

TupleNode_eval(n, v) ==
    IF v.k # "list" THEN Raise("SchemaValidationError", <<>>)
    ELSE IF Len(v.items) # Len(n.item_schemas) THEN Raise("SchemaValidationError", <<>>)
    ELSE LET r == EvalItems(n.item_schemas, v.items, <<>>, <<>>)
         IN  IF r.status = "ok" THEN Ok(PyTuple(r.vals), r.calls)
             ELSE Raise(r.status, r.calls)

UnionNode_is_optional(n) == \E j \in 1..Len(n.options) : n.options[j] = NoneOption

UnionNode_is_primitive(n) ==
    IF Len(n.options) = 1 THEN TRUE
    ELSE IF Len(n.options) = 2 /\ UnionNode_is_optional(n) THEN TRUE
    ELSE \A j \in 1..Len(n.options) :
            n.options[j] = NoneOption \/ n.options[j].t = "Primitive"

\* The loop over self.options: a SchemaValidationError of an alternative is
\* swallowed (the constructor calls that alternative made stay made), every
\* other exception propagates.
UnionLoop(options, v, calls) ==
    IF options = <<>> THEN Raise("SchemaValidationError", calls)
    ELSE IF Head(options) = NoneOption
         THEN IF v = JNull THEN Ok(JNull, calls)
              ELSE UnionLoop(Tail(options), v, calls)
         ELSE LET r == Eval(Head(options), v)
              IN  IF r.status = "SchemaValidationError"
                  THEN UnionLoop(Tail(options), v, calls \o r.calls)
                  ELSE [r EXCEPT !.calls = calls \o r.calls]

UnionNode_eval(n, v) ==
    IF ~UnionNode_is_primitive(n) THEN Raise("UnsupportedSchemaError", <<>>)
    ELSE UnionLoop(n.options, v, <<>>)

LiteralNode_eval(n, v) ==
    IF ~PyIn(v, n.options) THEN Raise("SchemaValidationError", <<>>)
    ELSE Ok(v, <<>>)

\* name_to_schema.get(arg_name): the last field of that name, or none.
FieldIndexes(n, name) == {j \in 1..Len(n.fields) : n.fields[j].name = name}
RequiredNames(n) == {n.fields[j].name : j \in {i \in 1..Len(n.fields) : n.fields[i].required}}

\* self.constructor_fn(*args, **kwargs)
Construct(n, args, kwargs, calls) ==
    LET call == Call(n.name, args, kwargs)
    IN  IF n.raises THEN Raise("ConstructorError", Append(calls, call))
        ELSE Ok(Constructed(n.name, args, kwargs), Append(calls, call))

\* The lookup of one key and the evaluation of its value.
ArgSchema(n, name) ==
    n.fields[CHOOSE j \in FieldIndexes(n, name) : \A i \in FieldIndexes(n, name) : i <= j].schema

\* ObjectLoop with the unknown-key check dropped: the key is skipped.
ObjectLoop_SkipsUnknownKey(n, entries, args, kwargs, missing_args, calls) ==
    IF entries = <<>>
    THEN IF missing_args # {} THEN Raise("SchemaValidationError", calls)
         ELSE Construct(n, args, kwargs, calls)
    ELSE LET e == Head(entries)
         IN  IF FieldIndexes(n, e.key) = {}
             THEN ObjectLoop(n, Tail(entries), args, kwargs, missing_args, calls)
             ELSE LET r == Eval(ArgSchema(n, e.key), e.val)
                  IN  IF r.status # "ok" THEN Raise(r.status, calls \o r.calls)
                      ELSE ObjectLoop(n, Tail(entries),
                               IF e.key \in n.pos_only THEN Append(args, r.val) ELSE args,
                               IF e.key \in n.pos_only THEN kwargs
                                   ELSE Append(kwargs, Entry(e.key, r.val)),
                               missing_args \ {e.key},
                               calls \o r.calls)

\* ObjectLoop with the missing_args check dropped.
ObjectLoop_NoMissingCheck(n, entries, args, kwargs, missing_args, calls) ==
    IF entries = <<>> THEN Construct(n, args, kwargs, calls)
    ELSE LET e == Head(entries)
         IN  IF FieldIndexes(n, e.key) = {} THEN Raise("SchemaValidationError", calls)
             ELSE LET r == Eval(ArgSchema(n, e.key), e.val)
                  IN  IF r.status # "ok" THEN Raise(r.status, calls \o r.calls)
                      ELSE ObjectLoop(n, Tail(entries),
                               IF e.key \in n.pos_only THEN Append(args, r.val) ELSE args,
                               IF e.key \in n.pos_only THEN kwargs
                                   ELSE Append(kwargs, Entry(e.key, r.val)),
                               missing_args \ {e.key},
                               calls \o r.calls)

\* The loop over value.items() and what follows it.
ObjectLoop(n, entries, args, kwargs, missing_args, calls) ==
    IF entries = <<>>
    THEN IF missing_args # {} THEN Raise("SchemaValidationError", calls)
         ELSE Construct(n, args, kwargs, calls)
    ELSE LET e == Head(entries)
         IN  IF FieldIndexes(n, e.key) = {} THEN Raise("SchemaValidationError", calls)
             ELSE LET r == Eval(ArgSchema(n, e.key), e.val)
                  IN  IF r.status # "ok" THEN Raise(r.status, calls \o r.calls)
                      ELSE ObjectLoop(n, Tail(entries),
                               IF e.key \in n.pos_only THEN Append(args, r.val) ELSE args,
                               IF e.key \in n.pos_only THEN kwargs
                                   ELSE Append(kwargs, Entry(e.key, r.val)),
                               missing_args \ {e.key},
                               calls \o r.calls)

ObjectNode_eval(n, v) ==
    IF v.k # "dict" THEN Raise("SchemaValidationError", <<>>)
    ELSE ObjectLoop(n, v.entries, <<>>, <<>>, RequiredNames(n), <<>>)

Eval(n, v) ==
    CASE n.t = "Undefined" -> Raise("UnsupportedSchemaError", <<>>)
      [] n.t = "Primitive" -> PrimitiveNode_eval(n, v)
      [] n.t = "Sequence" -> SequenceNode_eval(n, v)
      [] n.t = "Tuple" -> TupleNode_eval(n, v)
      [] n.t = "Mapping" -> Raise("UnsupportedSchemaError", <<>>)
      [] n.t = "Union" -> UnionNode_eval(n, v)
      [] n.t = "Literal" -> LiteralNode_eval(n, v)
      [] n.t = "Object" -> ObjectNode_eval(n, v)

-----------------------------------------------------------------------------
(* Projection.  A document is a record holding exactly the keys the code   *)
(* sets; `type` is [bare |-> TRUE, names |-> <<"integer">>] for a string   *)
(* and [bare |-> FALSE, names |-> ..] for a list of names.                 *)

Bare(name) == [bare |-> TRUE, names |-> <<name>>]
NameList(names) == [bare |-> FALSE, names |-> names]
NoDoc == [none |-> TRUE]
Projected(doc) == [status |-> "ok", doc |-> doc]
Fail(e) == [status |-> e, doc |-> NoDoc]

\* _type_to_jsonname
type_to_jsonname(p) ==
    CASE p = "bool" -> "boolean"
      [] p = "float" -> "number"
      [] p = "int" -> "integer"
      [] p = "str" -> "string"

\* if parent_hint: result["description"] = parent_hint
WithDescription(doc, h) ==
    IF Truthy(h) THEN doc @@ [description |-> h.text] ELSE doc

\* list.remove(x): drops the first occurrence only.
RECURSIVE ListRemove(_, _)
ListRemove(xs, x) ==
    IF xs = <<>> THEN <<>>
    ELSE IF Head(xs) = x THEN Tail(xs)
    ELSE <<Head(xs)>> \o ListRemove(Tail(xs), x)

InList(xs, x) == \E j \in 1..Len(xs) : xs[j] = x

RECURSIVE Filter(_, _)
Filter(xs, drop) ==
    IF xs = <<>> THEN <<>>
    ELSE IF Head(xs) = drop THEN Filter(Tail(xs), drop)
    ELSE <<Head(xs)>> \o Filter(Tail(xs), drop)

RECURSIVE JsonSchema(_, _)

PrimitiveNode_json_schema(n, h) ==
    Projected(WithDescription([type |-> Bare(type_to_jsonname(n.primitive_type))], h))

SequenceNode_json_schema(n, h) ==
    LET item == JsonSchema(n.item_schema, NoHint)
    IN  IF item.status # "ok" THEN item
        ELSE Projected(WithDescription([type |-> Bare("array"), items |-> item.doc], h))

\* The tail of UnionNode.json_schema, after the is_primitive and is_optional
\* branches: option.primitive_type of an option that is no PrimitiveNode is
\* an AttributeError.
UnionTypeNames(n, h) ==
    LET real == Filter(n.options, NoneOption)
    IN  IF \E j \in 1..Len(real) : real[j].t # "Primitive" THEN Fail("AttributeError")
        ELSE LET type_names == [j \in 1..Len(real) |-> type_to_jsonname(real[j].primitive_type)]
                 collapsed == IF InList(type_names, "number") /\ InList(type_names, "integer")
                              THEN ListRemove(type_names, "integer")
                              ELSE type_names
                 type == IF Len(collapsed) = 1 THEN Bare(collapsed[1])
                         ELSE NameList(collapsed)
             IN  Projected(WithDescription([type |-> type], h))

\* UnionNode_json_schema handing no parent hint to the single alternative.
UnionNode_json_schema_DropsHint(n, h) ==
    IF ~UnionNode_is_primitive(n) THEN Fail("UnsupportedSchemaError")
    ELSE IF UnionNode_is_optional(n)
         THEN LET options == Filter(n.options, NoneOption)
              IN  IF Len(options) = 1 THEN JsonSchema(options[1], NoHint)
                  ELSE JsonSchema(UnionNode(options), h)
         ELSE UnionTypeNames(n, h)

UnionNode_json_schema(n, h) ==
    IF ~UnionNode_is_primitive(n) THEN Fail("UnsupportedSchemaError")
    ELSE IF UnionNode_is_optional(n)
         THEN LET options == Filter(n.options, NoneOption)
              IN  IF Len(options) = 1 THEN JsonSchema(options[1], h)
                  ELSE JsonSchema(UnionNode(options), h)
         ELSE UnionTypeNames(n, h)

LiteralNode_json_schema(n, h) ==
    IF ~(\A j \in 1..Len(n.options) : n.options[j].k = "str")
    THEN Fail("UnsupportedSchemaError")
    ELSE Projected(WithDescription([type |-> Bare("string"), enum |-> n.options], h))

\* ObjectField.json_schema
ObjectField_json_schema(f) == JsonSchema(f.schema, f.hint)

\* The dict comprehension over self.fields: the first field whose projection
\* raises ends it.
RECURSIVE Properties(_, _)
Properties(fields, acc) ==
    IF fields = <<>> THEN [status |-> "ok", props |-> acc]
    ELSE LET r == ObjectField_json_schema(Head(fields))
         IN  IF r.status # "ok" THEN [status |-> r.status, props |-> acc]
             ELSE Properties(Tail(fields),
                             Append(acc, [name |-> Head(fields).name, schema |-> r.doc]))

RECURSIVE RequiredList(_)
RequiredList(fields) ==
    IF fields = <<>> THEN <<>>
    ELSE (IF Head(fields).required THEN <<Head(fields).name>> ELSE <<>>)
         \o RequiredList(Tail(fields))

\* JoinHints with the node's own hint put first.
JoinHints_OwnFirst(a, b) ==
    IF Truthy(a) /\ Truthy(b) THEN Hint(b.text \o "\n\n" \o a.text)
    ELSE IF Truthy(a) THEN Hint(a.text)
    ELSE IF Truthy(b) THEN Hint(b.text)
    ELSE Hint("")

\* "\n\n".join(joint_hint)
JoinHints(a, b) ==
    IF Truthy(a) /\ Truthy(b) THEN Hint(a.text \o "\n\n" \o b.text)
    ELSE IF Truthy(a) THEN Hint(a.text)
    ELSE IF Truthy(b) THEN Hint(b.text)
    ELSE Hint("")

ObjectNode_json_schema(n, h) ==
    LET p == Properties(n.fields, <<>>)
    IN  IF p.status # "ok" THEN Fail(p.status)
        ELSE Projected(WithDescription(
                 [type |-> Bare("object"), properties |-> p.props,
                  required |-> RequiredList(n.fields)],
                 JoinHints(h, n.hint)))

JsonSchema(n, h) ==
    CASE n.t = "Undefined" -> Fail("UnsupportedSchemaError")
      [] n.t = "Primitive" -> PrimitiveNode_json_schema(n, h)
      [] n.t = "Sequence" -> SequenceNode_json_schema(n, h)
      [] n.t = "Tuple" -> Fail("UnsupportedSchemaError")
      [] n.t = "Mapping" -> Fail("UnsupportedSchemaError")
      [] n.t = "Union" -> UnionNode_json_schema(n, h)
      [] n.t = "Literal" -> LiteralNode_json_schema(n, h)
      [] n.t = "Object" -> ObjectNode_json_schema(n, h)

-----------------------------------------------------------------------------
(* The inputs the operations are applied to.                               *)

SeqsUpTo(S, n) == UNION {[1..m -> S] : m \in 0..n}
Range(f) == {f[j] : j \in DOMAIN f}
Injective(f) == \A i, j \in DOMAIN f : f[i] = f[j] => i = j

PrimitiveTypes == {"int", "float", "str", "bool"}

ScalarValues ==
    {JNull, JBool(TRUE), JInt(1), JInt(50), JFloat2(2), JFloat2(3),
     JStr("hehe"), JStr("50")}
ListValues == {JList(xs) : xs \in SeqsUpTo({JInt(1), JStr("hehe")}, MaxLen)}

\* class Inner: m: int -- a nested composite, as Huhu in test_eval.
Inner ==
    ObjectNode("Inner", FALSE, {}, <<ObjectField("m", PrimitiveNode("int"), NoHint, TRUE)>>,
               Hint("Inner."))
\* The same class with a constructor that raises (a failing __init__ check).
InnerRaising ==
    ObjectNode("InnerRaising", TRUE, {},
               <<ObjectField("m", PrimitiveNode("int"), NoHint, TRUE)>>, Hint("Inner."))
InnerValue == JDict(<<Entry("m", JInt(1))>>)

UnionAlphabet ==
    {NoneOption, PrimitiveNode("int"), PrimitiveNode("float"), PrimitiveNode("str"),
     LiteralNode(<<JStr("hehe")>>)}
UnionNodes == {UnionNode(o) : o \in SeqsUpTo(UnionAlphabet, MaxOptions) \ {<<>>}}

PlainNodes ==
    {UndefinedNode, MappingNode(PrimitiveNode("str"), PrimitiveNode("int")),
     LiteralNode(<<JStr("hehe")>>), LiteralNode(<<JInt(1)>>),
     LiteralNode(<<JStr("x"), JInt(1)>>),
     SequenceNode(PrimitiveNode("int")), SequenceNode(UndefinedNode),
     TupleNode(<<PrimitiveNode("int"), PrimitiveNode("str")>>),
     UnionNode(<<SequenceNode(PrimitiveNode("int"))>>),
     UnionNode(<<NoneOption, SequenceNode(PrimitiveNode("int"))>>),
     UnionNode(<<NoneOption, UndefinedNode>>)}
    \cup {PrimitiveNode(p) : p \in PrimitiveTypes}
    \cup UnionNodes

\* A parameter of a signature: its annotation's schema, whether it has no
\* default, and whether it is positional-only.
ParamShapes ==
    {[schema |-> PrimitiveNode("int"), required |-> r, pos_only |-> po] :
        r \in BOOLEAN, po \in BOOLEAN}
    \cup {[schema |-> UndefinedNode, required |-> TRUE, pos_only |-> FALSE],
          [schema |-> Inner, required |-> FALSE, pos_only |-> FALSE],
          [schema |-> InnerRaising, required |-> FALSE, pos_only |-> FALSE]}

\* What Python accepts as a parameter list: positional-only parameters come
\* first, and among them none without a default follows one with a default.
ValidSignature(ps) ==
    /\ \A i, j \in DOMAIN ps : (i < j /\ ps[j].pos_only) => ps[i].pos_only
    /\ \A i, j \in DOMAIN ps :
          (i < j /\ ps[j].pos_only /\ ps[j].required) => ps[i].required

FieldNames == <<"a", "b", "c", "d">>
UnknownKey == "z"

\* The Object node extraction builds for def f(<ps>), see _extract_schema_impl.
ObjectOf(ps, raises) ==
    ObjectNode("f", raises,
               {FieldNames[j] : j \in {i \in DOMAIN ps : ps[i].pos_only}},
               [j \in DOMAIN ps |-> ObjectField(FieldNames[j], ps[j].schema, NoHint,
                                                ps[j].required)],
               Hint("F."))

ObjectNodes ==
    {ObjectOf(ps, raises) :
        ps \in {q \in SeqsUpTo(ParamShapes, MaxFields) : ValidSignature(q)},
        raises \in BOOLEAN}

DictKeys == {FieldNames[j] : j \in 1..MaxFields} \cup {UnknownKey}
DictValues ==
    {JDict(es) :
        es \in {e \in SeqsUpTo([key : DictKeys, val : {JInt(1), JInt(2), InnerValue}], MaxKeys) :
                   Injective([j \in DOMAIN e |-> e[j].key])}}

\* Object nodes with documented fields: every combination of a missing, an
\* empty and a real hint on the node and on its first field.
HintedObjects ==
    {ObjectNode("g", FALSE, {},
                <<ObjectField("a", PrimitiveNode("int"), fh, TRUE),
                  ObjectField("b", UnionNode(<<NoneOption, PrimitiveNode("str")>>),
                              Hint("The b."), FALSE)>>,
                oh) : fh \in {NoHint, Hint(""), Hint("The a.")},
                      oh \in {NoHint, Hint(""), Hint("G.")}}

Nodes == PlainNodes \cup ObjectNodes \cup HintedObjects
Hints == {NoHint, Hint(""), Hint("The x.")}

\* The JSON values tried against a node: JSON objects for Object nodes,
\* scalars and lists for the others, and a few of the other kind for both.
InputsFor(n) ==
    IF n.t = "Object" THEN DictValues \cup {JNull, JInt(1), JList(<<>>)}
    ELSE ScalarValues \cup ListValues \cup {JDict(<<>>)}

-----------------------------------------------------------------------------
(* The tool loop (wanga/runtime.py).  Message content is None or a string, *)
(* a tool is the Object node of its call schema, and an exception is its   *)
(* class together with the id of the invocation that raised it.            *)

MaxRetries == 2     \* largest max_retries_on_invalid_output

RESPONSE_TOOL_NAME == "submit_response"
RESPONSE_FIELD_NAME == "response"
RESPONSE_TOOL_PROMPT == "Call this function to respond to the user."

UserMessage(content) ==
    [role |-> "user", content |-> content, invocation_id |-> "", tool_invocations |-> <<>>]
AssistantMessage(content, tool_invocations) ==
    [role |-> "assistant", content |-> content, invocation_id |-> "",
     tool_invocations |-> tool_invocations]
ToolMessage(invocation_id, content) ==
    [role |-> "tool", content |-> content, invocation_id |-> invocation_id,
     tool_invocations |-> <<>>]
ToolInvocation(invocation_id, name, arguments) ==
    [invocation_id |-> invocation_id, name |-> name, arguments |-> arguments]
ResponseOption(message, finish_reason) ==
    [message |-> message, finish_reason |-> finish_reason]

NoExc == [type |-> "none", invocation_id |-> ""]
Exc(type, invocation_id) == [type |-> type, invocation_id |-> invocation_id]

RECURSIVE PyStr(_)
RECURSIVE ArgsText(_, _)

\* The arguments of a call as text: positional values, then key=value pairs.
ArgsText(args, kwargs) ==
    LET rest == IF args # <<>> THEN ArgsText(Tail(args), kwargs)
                ELSE IF kwargs # <<>> THEN ArgsText(<<>>, Tail(kwargs))
                ELSE ""
        first == IF args # <<>> THEN PyStr(Head(args))
                 ELSE IF kwargs # <<>> THEN Head(kwargs).key \o "=" \o PyStr(Head(kwargs).val)
                 ELSE ""
    IN  IF rest = "" THEN first ELSE first \o ", " \o rest

\* str(tool_output)
PyStr(v) ==
    CASE v.k = "null" -> "None"
      [] v.k = "bool" -> (IF v.b THEN "True" ELSE "False")
      [] v.k = "int" -> ToString(v.i)
      [] v.k = "float" -> ToString(v.h \div 2) \o (IF v.h % 2 = 0 THEN ".0" ELSE ".5")
      [] v.k = "str" -> v.s
      [] v.k = "obj" -> v.fn \o "(" \o ArgsText(v.args, v.kwargs) \o ")"
      [] OTHER -> "[...]"

\* str(e) of a SchemaValidationError: the model keeps one text for all of them.
ErrorText(status) == status \o ": invalid value"

\* _make_response_schema: no response tool for a function returning str.
HasResponseSchema(response_node) == response_node # PrimitiveNode("str")
make_response_schema(response_node) ==
    ObjectNode(RESPONSE_TOOL_NAME, FALSE, {},
               <<ObjectField(RESPONSE_FIELD_NAME, response_node, NoHint, TRUE)>>,
               Hint(RESPONSE_TOOL_PROMPT))

\* CallableSchema.eval; the constructor of the response tool is `reply`, which
\* returns its argument.
Reply_result(tool, r) ==
    IF r.status = "ok" /\ tool.name = RESPONSE_TOOL_NAME
    THEN Ok(r.val.kwargs[1].val, r.calls)
    ELSE r
CallableSchema_eval(tool, v) == Reply_result(tool, Eval(tool, v))

\* ToolParams.get_tool: the dict keeps the last tool of a name; a missing
\* name is a KeyError.
ToolIndexes(tool_params, name) ==
    {j \in 1..Len(tool_params) : tool_params[j].name = name}
get_tool(tool_params, name) ==
    tool_params[CHOOSE j \in ToolIndexes(tool_params, name) :
                    \A i \in ToolIndexes(tool_params, name) : i <= j]

FinalResponse(v) ==
    [kind |-> "final", value |-> v, messages |-> <<>>, errors |-> <<>>, exc |-> NoExc]
ToolInvocationResults(messages, errors) ==
    [kind |-> "results", value |-> NoVal, messages |-> messages, errors |-> errors,
     exc |-> NoExc]
Propagated(e) ==
    [kind |-> "raised", value |-> NoVal, messages |-> <<>>, errors |-> <<>>, exc |-> e]

RECURSIVE InvokeLoop(_, _, _, _)

\* InvokeOne taking submit_response for an ordinary tool.
InvokeOne_NoFinalResponse(invocations, tool_params, messages, errors, tool, r) ==
    IF r.status = "ok"
    THEN InvokeLoop(Tail(invocations), tool_params,
             Append(messages,
                    ToolMessage(Head(invocations).invocation_id, JStr(PyStr(r.val)))),
             errors)
    ELSE IF r.status = "SchemaValidationError"
    THEN InvokeLoop(Tail(invocations), tool_params,
             Append(messages,
                    ToolMessage(Head(invocations).invocation_id, JStr(ErrorText(r.status)))),
             Append(errors, Exc(r.status, Head(invocations).invocation_id)))
    ELSE Propagated(Exc(r.status, Head(invocations).invocation_id))

\* InvokeOne catching every exception of tool.eval.
InvokeOne_CatchesAll(invocations, tool_params, messages, errors, tool, r) ==
    IF r.status = "ok"
    THEN IF tool.name = RESPONSE_TOOL_NAME THEN FinalResponse(r.val)
         ELSE InvokeLoop(Tail(invocations), tool_params,
                  Append(messages,
                         ToolMessage(Head(invocations).invocation_id, JStr(PyStr(r.val)))),
                  errors)
    ELSE InvokeLoop(Tail(invocations), tool_params,
             Append(messages,
                    ToolMessage(Head(invocations).invocation_id, JStr(ErrorText(r.status)))),
             Append(errors, Exc(r.status, Head(invocations).invocation_id)))

\* The body of the loop of invoke_tools for one invocation, given the tool
\* found for it and the outcome r of tool.eval(invocation.arguments).
InvokeOne(invocations, tool_params, messages, errors, tool, r) ==
    IF r.status = "ok"
    THEN IF tool.name = RESPONSE_TOOL_NAME THEN FinalResponse(r.val)
         ELSE InvokeLoop(Tail(invocations), tool_params,
                  Append(messages,
                         ToolMessage(Head(invocations).invocation_id, JStr(PyStr(r.val)))),
                  errors)
    ELSE IF r.status = "SchemaValidationError"
    THEN InvokeLoop(Tail(invocations), tool_params,
             Append(messages,
                    ToolMessage(Head(invocations).invocation_id, JStr(ErrorText(r.status)))),
             Append(errors, Exc(r.status, Head(invocations).invocation_id)))
    ELSE Propagated(Exc(r.status, Head(invocations).invocation_id))

\* The loop of invoke_tools over message.tool_invocations.
InvokeLoop(invocations, tool_params, messages, errors) ==
    IF invocations = <<>> THEN ToolInvocationResults(messages, errors)
    ELSE IF ToolIndexes(tool_params, Head(invocations).name) = {}
    THEN Propagated(Exc("KeyError", Head(invocations).invocation_id))
    ELSE InvokeOne(invocations, tool_params, messages, errors,
                   get_tool(tool_params, Head(invocations).name),
                   CallableSchema_eval(get_tool(tool_params, Head(invocations).name),
                                       Head(invocations).arguments))

invoke_tools(message, tool_params) ==
    InvokeLoop(message.tool_invocations, tool_params, <<>>, <<>>)

InvocationState(messages, tool_params, allow_plain_text, max_retries) ==
    [messages |-> messages, tool_params |-> tool_params,
     allow_plain_text_response |-> allow_plain_text,
     max_retries_on_invalid_output |-> max_retries,
     result |-> JNull]

\* What _handle_model_response does: the state it returns, or the exception
\* it raises (the caller's state is then the one it had).
Returns(st) == [raised |-> NoExc, state |-> st]
Raises(e, st) == [raised |-> e, state |-> st]

\* RetryOrRaise raising one retry too early.
RetryOrRaise_RaisesAtOne(st, errors) ==
    IF errors # <<>>
    THEN IF st.max_retries_on_invalid_output <= 1 THEN Raises(errors[1], st)
         ELSE Returns([st EXCEPT !.max_retries_on_invalid_output = @ - 1])
    ELSE Returns(st)

\* RetryOrRaise taking one retry for each error.
RetryOrRaise_PerError(st, errors) ==
    IF errors # <<>>
    THEN IF st.max_retries_on_invalid_output = 0 THEN Raises(errors[1], st)
         ELSE Returns([st EXCEPT !.max_retries_on_invalid_output = @ - Len(errors)])
    ELSE Returns(st)

\* `if errors:` in _handle_model_response.
RetryOrRaise(st, errors) ==
    IF errors # <<>>
    THEN IF st.max_retries_on_invalid_output = 0 THEN Raises(errors[1], st)
         ELSE Returns([st EXCEPT !.max_retries_on_invalid_output = @ - 1])
    ELSE Returns(st)

\* AfterInvokeTools leaving the tool messages out of the conversation.
AfterInvokeTools_DropsToolMessages(st, st1, res) ==
    CASE res.kind = "final" -> Returns([st1 EXCEPT !.result = res.value])
      [] res.kind = "raised" -> Raises(res.exc, st)
      [] OTHER -> RetryOrRaise(st1, res.errors)

\* What follows invoke_tools in _handle_model_response; st is the caller's
\* state and st1 the state with the assistant message appended.
AfterInvokeTools(st, st1, res) ==
    CASE res.kind = "final" -> Returns([st1 EXCEPT !.result = res.value])
      [] res.kind = "raised" -> Raises(res.exc, st)
      [] OTHER -> RetryOrRaise([st1 EXCEPT !.messages = @ \o res.messages], res.errors)

\* An exception leaves the caller with the state it had.
Unwind(st, h) == IF h.raised # NoExc THEN Raises(h.raised, st) ELSE h

HandleMessage(response, st, st1) ==
    IF response.finish_reason = "stop" /\ st1.allow_plain_text_response
    THEN Returns([st1 EXCEPT !.result = response.message.content])
    ELSE IF response.finish_reason \in {"stop", "tool_call"}
    THEN IF response.message.tool_invocations # <<>>
         THEN Unwind(st, AfterInvokeTools(st, st1,
                             invoke_tools(response.message, st1.tool_params)))
         ELSE Raises(Exc("RuntimeError", ""), st)
    ELSE IF response.finish_reason = "content_filter"
    THEN Raises(Exc("ContentFilterError", ""), st)
    ELSE Raises(Exc("OutputTooLongError", ""), st)

handle_model_response(response, st) ==
    HandleMessage(response, st, [st EXCEPT !.messages = Append(@, response.message)])

\* The tools of the function under execution and what a model may send.
AddTool ==
    ObjectNode("add", FALSE, {},
               <<ObjectField("a", PrimitiveNode("int"), NoHint, TRUE)>>, Hint("Add."))
BoomTool == ObjectNode("boom", TRUE, {}, <<>>, NoHint)
LookupTool ==
    ObjectNode("lookup", FALSE, {},
               <<ObjectField("x", UndefinedNode, NoHint, TRUE)>>, NoHint)
Tools == <<AddTool, BoomTool, LookupTool>>

\* The return annotations of the function: str, int and int | None.
ReturnNodes ==
    {PrimitiveNode("str"), PrimitiveNode("int"),
     UnionNode(<<PrimitiveNode("int"), NoneOption>>)}

\* Runtime._prepare_kwargs: the response tool comes last, and plain text is
\* allowed exactly when there is none.
prepare_tool_params(response_node) ==
    IF HasResponseSchema(response_node)
    THEN Append(Tools, make_response_schema(response_node))
    ELSE Tools

Invoke(name, arguments) == [name |-> name, arguments |-> arguments]
AddOk == Invoke("add", JDict(<<Entry("a", JInt(1))>>))
AddBad == Invoke("add", JDict(<<Entry("a", JStr("x"))>>))
SubmitOk == Invoke(RESPONSE_TOOL_NAME, JDict(<<Entry(RESPONSE_FIELD_NAME, JInt(3))>>))
SubmitBad == Invoke(RESPONSE_TOOL_NAME, JDict(<<Entry(RESPONSE_FIELD_NAME, JStr("Invalid"))>>))
SubmitNone == Invoke(RESPONSE_TOOL_NAME, JDict(<<Entry(RESPONSE_FIELD_NAME, JNull)>>))
UnknownTool == Invoke("nope", JDict(<<>>))
Boom == Invoke("boom", JDict(<<>>))
Lookup == Invoke("lookup", JDict(<<Entry("x", JInt(1))>>))

\* Invocation ids are the positions in the message.
WithIds(cs) == [j \in DOMAIN cs |-> ToolInvocation(ToString(j), cs[j].name, cs[j].arguments)]

ToolCallLists ==
    {<<>>, <<AddOk>>, <<AddBad>>, <<SubmitOk>>, <<SubmitBad>>, <<SubmitNone>>,
     <<UnknownTool>>, <<Boom>>, <<Lookup>>,
     <<AddBad, AddOk>>, <<AddBad, SubmitBad>>, <<SubmitBad, AddBad>>,
     <<AddBad, SubmitOk>>, <<SubmitOk, AddBad>>,
     <<AddBad, UnknownTool>>, <<AddBad, Boom>>,
     <<AddBad, SubmitNone>>, <<SubmitBad, SubmitOk>>, <<SubmitOk, UnknownTool>>,
     <<AddBad, Lookup>>, <<AddOk, AddOk>>}

Responses ==
    {ResponseOption(AssistantMessage(JNull, WithIds(cs)), "tool_call") : cs \in ToolCallLists}
    \cup {ResponseOption(AssistantMessage(c, WithIds(cs)), "stop") :
             c \in {JNull, JStr("4")}, cs \in {<<>>, <<AddBad>>, <<SubmitOk>>}}
    \cup {ResponseOption(AssistantMessage(JStr("4"), WithIds(cs)), fr) :
             fr \in {"length", "content_filter"}, cs \in {<<>>, <<AddBad>>}}

\* What is observed of the responses of one run: whether every response so
\* far held an invocation failing validation, whether every response so far
\* was moreover one the loop could only retry on, and the id of the first
\* failing invocation of the latest response.
KnownTool(invocation, tool_params) == ToolIndexes(tool_params, invocation.name) # {}
Outcome(invocation, tool_params) ==
    IF ~KnownTool(invocation, tool_params) THEN "KeyError"
    ELSE CallableSchema_eval(get_tool(tool_params, invocation.name),
                             invocation.arguments).status
Outcomes(response, tool_params) ==
    [j \in DOMAIN response.message.tool_invocations |->
        Outcome(response.message.tool_invocations[j], tool_params)]
FirstOf(S) == CHOOSE j \in S : \A i \in S : j <= i
Failing(outcomes) == {j \in DOMAIN outcomes : outcomes[j] = "SchemaValidationError"}
RECURSIVE EvaluatedIn(_, _)
\* invoke_tools after tool.eval gave the status for the first invocation: the
\* loop goes on after an ordinary tool's output and after a validation error.
EvaluatedAfter(invocations, tool_params, status) ==
    <<Head(invocations).invocation_id>>
    \o (IF status = "SchemaValidationError"
            \/ (status = "ok" /\ Head(invocations).name # RESPONSE_TOOL_NAME)
         THEN EvaluatedIn(Tail(invocations), tool_params)
         ELSE <<>>)
\* The invocations tool.eval is called for by invoke_tools, in the order of
\* the calls.
EvaluatedIn(invocations, tool_params) ==
    IF invocations = <<>> \/ ~KnownTool(Head(invocations), tool_params) THEN <<>>
    ELSE EvaluatedAfter(invocations, tool_params, Outcome(Head(invocations), tool_params))
\* The invocations evaluated while _handle_model_response handles a response.
Evaluated(response, st) ==
    IF response.finish_reason = "tool_call"
       \/ (response.finish_reason = "stop" /\ ~st.allow_plain_text_response)
    THEN EvaluatedIn(response.message.tool_invocations, st.tool_params)
    ELSE <<>>

\* The response is handled as tool calls (it is no plain-text answer and no
\* truncated or filtered output), none of its invocations is a successful
\* submit_response or raises anything but a validation error, and at least
\* one fails validation.
Collects(response, st, outcomes) ==
    /\ \/ response.finish_reason = "tool_call"
       \/ response.finish_reason = "stop" /\ ~st.allow_plain_text_response
    /\ Failing(outcomes) # {}
    /\ \A j \in DOMAIN outcomes :
          \/ outcomes[j] = "SchemaValidationError"
          \/ /\ outcomes[j] = "ok"
             /\ response.message.tool_invocations[j].name # RESPONSE_TOOL_NAME
Observe(response, st, outcomes) ==
    [every_failing |-> seen.every_failing /\ Failing(outcomes) # {},
     only_retryable |->
        /\ seen.only_retryable
        /\ \/ response.finish_reason = "tool_call"
           \/ response.finish_reason = "stop" /\ ~st.allow_plain_text_response
        /\ Failing(outcomes) # {}
        /\ \A j \in DOMAIN outcomes :
              \/ outcomes[j] = "SchemaValidationError"
              \/ /\ outcomes[j] = "ok"
                 /\ response.message.tool_invocations[j].name # RESPONSE_TOOL_NAME,
     first_failing |->
        IF Failing(outcomes) = {} THEN ""
        ELSE response.message.tool_invocations[FirstOf(Failing(outcomes))].invocation_id]

-----------------------------------------------------------------------------
(* The models of a Runtime (wanga/runtime.py).  A model is an object with  *)
(* a name; two models of one runtime may have the same name.               *)

MaxModels == 2      \* most models given to a Runtime
MaxPreferred == 2   \* most entries of preferred_models

Model(id, name) == [id |-> id, name |-> name]
NoModel == Model(0, "")
\* Three model objects, two of them with the same name.
Models == {Model(1, "gpt"), Model(2, "claude"), Model(3, "gpt")}
ModelNames == {"gpt", "claude", "llama"}

\* Runtime._select_model choosing among the models in the order given.
select_model_IgnoresPreferenceOrder(models, preferred_models) ==
    IF models = <<>> THEN [model |-> NoModel, raised |-> "IndexError"]
    ELSE IF \E j \in DOMAIN models, k \in DOMAIN preferred_models :
                models[j].name = preferred_models[k]
    THEN [model |-> models[CHOOSE j \in DOMAIN models :
                              /\ \E k \in DOMAIN preferred_models :
                                    models[j].name = preferred_models[k]
                              /\ \A i \in 1..(j - 1) :
                                    \A k \in DOMAIN preferred_models :
                                        models[i].name # preferred_models[k]],
          raised |-> "none"]
    ELSE [model |-> models[1], raised |-> "none"]

\* name_to_model = {model.name: model for model in self.models}: the dict
\* keeps the last model of a name.
name_to_model(models, name) ==
    IF \E j \in DOMAIN models : models[j].name = name
    THEN models[CHOOSE j \in DOMAIN models :
                    /\ models[j].name = name
                    /\ \A i \in (j + 1)..Len(models) : models[i].name # name]
    ELSE NoModel

RECURSIVE select_model(_, _)
\* Runtime._select_model: the first preferred name the dict holds, and
\* self.models[0] when there is none (an IndexError for no models).
select_model(models, preferred_models) ==
    IF preferred_models = <<>>
    THEN IF models = <<>> THEN [model |-> NoModel, raised |-> "IndexError"]
         ELSE [model |-> models[1], raised |-> "none"]
    ELSE IF name_to_model(models, Head(preferred_models)) # NoModel
    THEN [model |-> name_to_model(models, Head(preferred_models)), raised |-> "none"]
    ELSE select_model(models, Tail(preferred_models))

-----------------------------------------------------------------------------
(* The active Runtime (wanga/runtime.py): the context variable             *)
(* _global_runtime, with the tokens ContextVar.set returns.  A token holds *)
(* the value the variable had before the set, and ContextVar.reset accepts *)
(* a token once.  Each Runtime keeps the token of its latest __enter__.    *)

MaxEntries == 4     \* most __enter__ calls followed

Runtimes == {1, 2}
\* The default of the context variable, None.
NoRuntime == 0
Token(old_value) == [old_value |-> old_value, used |-> FALSE]

\* get_runtime: the value of the variable, and ValueError for None.
NotYet == [status |-> "none", runtime |-> NoRuntime]
get_runtime(current) ==
    IF current = NoRuntime THEN [status |-> "ValueError", runtime |-> NoRuntime]
    ELSE [status |-> "ok", runtime |-> current]

-----------------------------------------------------------------------------
(* The retry policy of OpenAIModel.reply (wanga/models/openai.py).  An     *)
(* attempt is one call of the completion endpoint; its outcome is "ok" or  *)
(* the class of the exception _reply_with_retry raised.                    *)

MaxNumRetries == 2  \* largest num_retries

\* The classes of the openai package an error is an instance of.
Bases(e) ==
    CASE e = "APITimeoutError" ->
            {"APITimeoutError", "APIConnectionError", "APIError", "OpenAIError"}
      [] e = "APIConnectionError" -> {"APIConnectionError", "APIError", "OpenAIError"}
      [] e \in {"BadRequestError", "AuthenticationError", "RateLimitError",
                "InternalServerError", "PermissionDeniedError"} ->
            {e, "APIStatusError", "APIError", "OpenAIError"}
      [] e = "APIError" -> {"APIError", "OpenAIError"}
      [] e = "OpenAIError" -> {"OpenAIError"}
      [] OTHER -> {e}
IsA(e, cls) == cls \in Bases(e)

\* _wrap_error: the first matching case wins; an error matching none is
\* returned as it is.
wrap_error(e) ==
    IF IsA(e, "APITimeoutError") THEN "ModelTimeoutError"
    ELSE IF IsA(e, "BadRequestError") THEN "PromptError"
    ELSE IF IsA(e, "AuthenticationError") THEN "AuthenticationError"
    ELSE IF IsA(e, "RateLimitError") THEN "RateLimitError"
    ELSE IF IsA(e, "InternalServerError") \/ IsA(e, "APIConnectionError")
    THEN "ServiceUnvailableError"
    ELSE IF IsA(e, "APIError") THEN "ServiceUnvailableError"
    ELSE e

\* What the endpoint call can do: return a completion, return one whose tool
\* arguments are not JSON, or raise.
EndpointOutcomes ==
    {"completion", "malformed_completion",
     "APITimeoutError", "APIConnectionError", "BadRequestError", "AuthenticationError",
     "RateLimitError", "InternalServerError", "PermissionDeniedError", "APIError",
     "OpenAIError", "ValueError"}

\* One run of _reply_with_retry: only openai errors are caught and wrapped.
reply_with_retry(outcome) ==
    IF outcome = "completion" THEN "ok"
    ELSE IF outcome = "malformed_completion" THEN "InvalidJsonError"
    ELSE IF IsA(outcome, "OpenAIError") THEN wrap_error(outcome)
    ELSE outcome

\* retry_conditions without the test of retry_on_request_limit.
retry_conditions_IgnoresFlag(retry_on_request_limit, e) ==
    e \in {"ServiceUnvailableError", "RateLimitError"}

\* retry=retry_conditions in _create_retry_decorator.
retry_conditions(retry_on_request_limit, e) ==
    \/ e = "ServiceUnvailableError"
    \/ retry_on_request_limit /\ e = "RateLimitError"

\* stop=stop_after_attempt(self._num_retries + 1)
stop_after_attempt(num_retries, attempt_number) == attempt_number >= num_retries + 1

-----------------------------------------------------------------------------
(* Type annotations (wanga/schema/normalize.py).  An annotation is its     *)
(* kind, its origin and its arguments.  A class, a tag of Annotated, an    *)
(* option of Literal and the Ellipsis have no origin.  typing.Union and    *)
(* types.UnionType are two classes, as normalize.py and extractor.py take  *)
(* them to be (CPython 3.10 to 3.13), and only the first can be            *)
(* subscripted.                                                            *)

Ann(k, name, args) == [k |-> k, name |-> name, args |-> args]
NoAnn == Ann("raised", "", <<>>)
Class(name) == Ann("class", name, <<>>)
Tag(x) == Ann("tag", x, <<>>)
\* An option of Literal: the name is the option, a JSON value.
Option(x) == Ann("value", x, <<>>)
Ellipsis == Ann("ellipsis", "...", <<>>)
NoneType == Class("NoneType")
\* list[int], collections.abc.Sequence[int]: types.GenericAlias
GenericAlias(origin, args) == Ann("generic", origin, args)
\* typing.List[int], typing.Sequence[int], and the bare typing.List
TypingAlias(origin, args) == Ann("typing", origin, args)
Literal(options) == Ann("Literal", "Literal", options)

NoOrigin == "None"
get_origin(a) == IF a.k \in {"class", "tag", "value", "ellipsis"} THEN NoOrigin ELSE a.name
get_args(a) == a.args

RECURSIVE FlattenUnion(_)
\* The members of a union being built: a union among them gives its own.
FlattenUnion(args) ==
    IF args = <<>> THEN <<>>
    ELSE (IF Head(args).k \in {"Union", "UnionType"} THEN Head(args).args ELSE <<Head(args)>>)
         \o FlattenUnion(Tail(args))

RECURSIVE Dedup(_)
\* The first occurrence of each member, in order.
Dedup(xs) ==
    IF xs = <<>> THEN <<>>
    ELSE LET front == Dedup(SubSeq(xs, 1, Len(xs) - 1))
         IN IF \E j \in DOMAIN front : front[j] = xs[Len(xs)] THEN front
            ELSE Append(front, xs[Len(xs)])

\* What Python builds for a union of the given members: they are flattened,
\* duplicates go, and a union of one member is that member.
PyUnion(kind, members) == IF Len(members) = 1 THEN members[1] ELSE Ann(kind, kind, members)
\* typing.Union[args], typing.Optional[t]
TypingUnion(args) == PyUnion("Union", Dedup(FlattenUnion(args)))
\* typing.Annotated[t, tag]; an Annotated inside takes the tag over.
Annotated(t, tag) ==
    IF t.k = "Annotated" THEN Ann("Annotated", "Annotated", Append(t.args, tag))
    ELSE Ann("Annotated", "Annotated", <<t, tag>>)

\* Objects of the typing module: `|` with one of them gives a typing.Union.
IsTypingObject(a) == a.k \in {"typing", "Annotated", "Union", "Literal"}
\* a | b
Or(a, b) ==
    PyUnion(IF IsTypingObject(a) \/ IsTypingObject(b) THEN "Union" ELSE "UnionType",
            Dedup(FlattenUnion(<<a, b>>)))

RECURSIVE FoldOr(_, _)
FoldOr(acc, rest) == IF rest = <<>> THEN acc ELSE FoldOr(Or(acc, Head(rest)), Tail(rest))
\* _fold_or
fold_or(annotations) == FoldOr(Head(annotations), Tail(annotations))

ABSTRACT_TO_CONCRETE ==
    ("collections.abc.Set" :> "set") @@ ("collections.abc.ByteString" :> "bytes")
    @@ ("collections.abc.Mapping" :> "dict") @@ ("collections.abc.MutableMapping" :> "dict")
    @@ ("collections.abc.MutableSequence" :> "list") @@ ("collections.abc.MutableSet" :> "set")
    @@ ("collections.abc.Sequence" :> "list") @@ ("collections.abc.MappingView" :> "dict")
    @@ ("collections.abc.ValuesView" :> "list") @@ ("collections.abc.KeysView" :> "list")
    @@ ("collections.abc.Iterable" :> "list") @@ ("collections.abc.Iterator" :> "list")
    @@ ("collections.abc.Container" :> "list") @@ ("collections.abc.Collection" :> "list")
    @@ ("collections.abc.Sized" :> "list") @@ ("collections.abc.Reversible" :> "list")
\* ABSTRACT_TO_CONCRETE.get(origin, origin) under `if concretize:`
Concretized(origin, concretize) ==
    IF concretize /\ origin \in DOMAIN ABSTRACT_TO_CONCRETE THEN ABSTRACT_TO_CONCRETE[origin]
    ELSE origin

\* The outcome of normalize_annotation: the annotation, or the exception raised.
Normalized(a) == [status |-> "ok", ann |-> a]
NormalizeRaise(e) == [status |-> e, ann |-> NoAnn]

\* origin[args]: a class gives a generic alias and Literal a Literal, while
\* types.UnionType has no __class_getitem__.
Subscript(origin, args) ==
    IF origin = "UnionType" THEN NormalizeRaise("TypeError")
    ELSE IF origin = "Literal" THEN Normalized(Literal(args))
    ELSE Normalized(GenericAlias(origin, args))

\* normalize_annotation from `if origin is Annotated:` on, the arguments
\* normalized.
AfterArgs(origin, args, concretize) ==
    IF origin = "Annotated" THEN Normalized(args[1])
    ELSE IF origin = "Union" THEN Normalized(fold_or(args))
    ELSE IF args # <<>> THEN Subscript(Concretized(origin, concretize), args)
    ELSE Normalized(Class(Concretized(origin, concretize)))

\* The tuple(...) over the arguments: the first one that raises ends it.
Rebuild(origin, rs, concretize) ==
    IF \E j \in DOMAIN rs : rs[j].status # "ok"
    THEN rs[CHOOSE j \in DOMAIN rs : rs[j].status # "ok" /\ \A i \in 1..(j - 1) : rs[i].status = "ok"]
    ELSE AfterArgs(origin, [j \in DOMAIN rs |-> rs[j].ann], concretize)

RECURSIVE normalize_annotation(_, _)
normalize_annotation(annotation, concretize) ==
    IF get_origin(annotation) = NoOrigin THEN Normalized(annotation)
    ELSE Rebuild(get_origin(annotation),
                 [j \in DOMAIN get_args(annotation) |->
                     normalize_annotation(get_args(annotation)[j], concretize)],
                 concretize)

\* The annotations normalize_annotation is applied to: classes, generics in
\* both spellings, Annotated, Optional and unions in both spellings, Literal,
\* and the same one and two levels deep.
Wrapped(S) ==
    {GenericAlias("list", <<t>>) : t \in S}
    \cup {TypingAlias("list", <<t>>) : t \in S}
    \cup {GenericAlias("collections.abc.Sequence", <<t>>) : t \in S}
    \cup {TypingAlias("collections.abc.Iterable", <<t>>) : t \in S}
    \cup {GenericAlias("tuple", <<t, Ellipsis>>) : t \in S}
    \cup {TypingAlias("collections.abc.Mapping", <<Class("str"), t>>) : t \in S}
    \cup {Annotated(t, Tag("tag")) : t \in S}
    \cup {TypingUnion(<<t, NoneType>>) : t \in S}
    \cup {Or(t, NoneType) : t \in S}
    \cup {TypingUnion(<<s, t>>) : s, t \in S}
    \cup {Or(s, t) : s, t \in S}
BaseAnnotations ==
    {Class("int"), Class("str"), Class("Foo"), Class("list"), TypingAlias("list", <<>>),
     TypingAlias("collections.abc.Sequence", <<>>), Class("collections.abc.Sequence"),
     Literal(<<Option(JStr("hehe")), Option(JInt(1))>>)}
\* typing.Literal[x, ...] over integers
LiteralOf(xs) == Literal([j \in DOMAIN xs |-> Option(JInt(xs[j]))])
\* Unions with several Literal arms, flat and nested, with and without other
\* arms, as test_normalize_schema writes them.
LiteralUnions ==
    {Or(Or(LiteralOf(<<1>>), LiteralOf(<<2>>)), LiteralOf(<<3>>)),
     Or(LiteralOf(<<1, 2>>), TypingUnion(<<LiteralOf(<<2, 3>>), LiteralOf(<<3, 4>>)>>)),
     TypingUnion(<<LiteralOf(<<1>>), LiteralOf(<<2>>), Class("int")>>),
     TypingUnion(<<LiteralOf(<<1>>), Class("str"), LiteralOf(<<1, 2>>)>>),
     Or(LiteralOf(<<1>>), Class("str"))}
Annotations ==
    BaseAnnotations \cup Wrapped(BaseAnnotations) \cup Wrapped(Wrapped({Class("int"), Class("str")}))
    \cup LiteralUnions \cup {GenericAlias("list", <<u>>) : u \in LiteralUnions}

-----------------------------------------------------------------------------
(* Schema extraction (wanga/schema/extractor.py).  A callable is what the  *)
(* extractor reads of it: its name, whether it is a class, what            *)
(* inspect.signature gives for it and for its __init__, and what           *)
(* inspect.getdoc and docstring_parser give for it and for its __init__.   *)

\* inspect.Signature.empty
Empty == Ann("empty", "", <<>>)
Parameter(name, annotation, has_default) ==
    [name |-> name, annotation |-> annotation, has_default |-> has_default]
Signature(parameters, return_annotation) ==
    [status |-> "ok", parameters |-> parameters, return_annotation |-> return_annotation]
\* inspect.signature raising e.
NoSignature(e) == [status |-> e, parameters |-> <<>>, return_annotation |-> Empty]

\* A parsed docstring; no docstring at all; a docstring the parser rejects.
DocParam(arg_name, description) == [arg_name |-> arg_name, description |-> description]
Docstring(short, long, params) ==
    [status |-> "ok", short_description |-> short, long_description |-> long, params |-> params]
NoDocstring == [status |-> "none", short_description |-> NoHint, long_description |-> NoHint, params |-> <<>>]
BadDocstring == [NoDocstring EXCEPT !.status = "ParseError"]

Callable(name, cls, signature, init_signature, doc, init_doc) ==
    [name |-> name, cls |-> cls, signature |-> signature, init_signature |-> init_signature,
     doc |-> doc, init_doc |-> init_doc]
\* def name(parameters) -> return_annotation, with docstring doc.
Function(name, signature, doc) ==
    Callable(name, FALSE, signature, NoSignature("AttributeError"), doc, NoDocstring)

\* strip_self
strip_self(signature) ==
    [signature EXCEPT !.parameters = SelectSeq(@, LAMBDA p : p.name # "self")]

\* The try/except ValueError around inspect.signature: the fallback to the
\* signature of __init__, without self.
SignatureOf(target) ==
    IF target.signature.status = "ValueError"
    THEN IF target.init_signature.status = "ok" THEN strip_self(target.init_signature)
         ELSE target.init_signature
    ELSE target.signature

DocstringHints(object_hint, long_decsription, param_to_hint) ==
    [status |-> "ok", object_hint |-> object_hint, long_decsription |-> long_decsription,
     param_to_hint |-> param_to_hint]
HintsRaise(e) ==
    [status |-> e, object_hint |-> NoHint, long_decsription |-> NoHint,
     param_to_hint |-> [x \in {} |-> ""]]

RECURSIVE ParamToHint(_)
\* {param.arg_name: param.description for param in docstring.params if param.description}
ParamToHint(params) ==
    IF params = <<>> THEN [x \in {} |-> ""]
    ELSE IF Truthy(params[Len(params)].description)
         THEN (params[Len(params)].arg_name :> params[Len(params)].description.text)
              @@ ParamToHint(SubSeq(params, 1, Len(params) - 1))
         ELSE ParamToHint(SubSeq(params, 1, Len(params) - 1))

\* The first half of extract_hints: the hints of one docstring.
OwnHints(doc) ==
    IF doc.status = "none" THEN DocstringHints(NoHint, NoHint, [x \in {} |-> ""])
    ELSE IF doc.status # "ok" THEN HintsRaise(doc.status)
    ELSE DocstringHints(doc.short_description, doc.long_description, ParamToHint(doc.params))

\* a or b
HintOr(a, b) == IF Truthy(a) THEN a ELSE b

\* The second half of extract_hints for a class: param_to_hint.update(...)
\* lets the hints of __init__ replace the class's.
MergeInitHints(own, init_hints) ==
    IF own.status # "ok" THEN own
    ELSE IF init_hints.status # "ok" THEN init_hints
    ELSE DocstringHints(HintOr(own.object_hint, init_hints.object_hint),
                        HintOr(own.long_decsription, init_hints.long_decsription),
                        init_hints.param_to_hint @@ own.param_to_hint)

extract_hints(target) ==
    IF target.cls THEN MergeInitHints(OwnHints(target.doc), OwnHints(target.init_doc))
    ELSE OwnHints(target.doc)

\* hints.param_to_hint.get(param.name)
HintOf(param_to_hint, name) ==
    IF name \in DOMAIN param_to_hint THEN Hint(param_to_hint[name]) ELSE NoHint

\* What an extraction function returns: None or a CallableSchema, or it raises.
Nothing == [t |-> "Nothing"]
Returned(schema) == [status |-> "ok", schema |-> schema]
FnRaise(e) == [status |-> e, schema |-> Nothing]

\* _get_datetime_arg
get_datetime_arg(name, required) == ObjectField(name, PrimitiveNode("int"), NoHint, required)
date_fields == <<"year", "month", "day">>
time_fields == <<"hour", "minute", "second">>
delta_fields == <<"days", "seconds">>
DatetimeFields(name) ==
    (IF name \in {"date", "datetime"}
     THEN [j \in DOMAIN date_fields |-> get_datetime_arg(date_fields[j], TRUE)] ELSE <<>>)
    \o (IF name \in {"datetime", "time"}
        THEN [j \in DOMAIN time_fields |-> get_datetime_arg(time_fields[j], FALSE)] ELSE <<>>)
    \o (IF name = "timedelta"
        THEN [j \in DOMAIN delta_fields |-> get_datetime_arg(delta_fields[j], FALSE)] ELSE <<>>)
extract_datetime(annotation) ==
    IF DatetimeFields(annotation.name) = <<>> THEN Returned(Nothing)
    ELSE Returned(CallableSchema(ObjectNode(annotation.name, FALSE, {},
                                            DatetimeFields(annotation.name), NoHint),
                                 UndefinedNode, NoHint))

\* An extraction function: extract_datetime, or one a user registers, which
\* returns a schema of its own for the callables it accepts, raises on those
\* it fails on and returns None for the others.
ExtractDatetime == [id |-> "extract_datetime", accepts |-> {}, fails |-> {}, error |-> "none"]
UserFn(id, accepts, fails, error) == [id |-> id, accepts |-> accepts, fails |-> fails, error |-> error]
SchemaBy(fn, target) ==
    CallableSchema(ObjectNode(target.name, FALSE, {}, <<>>, Hint(fn.id)), UndefinedNode, NoHint)
\* schema = fn(callable)
ApplyFn(fn, target) ==
    IF fn.id = "extract_datetime" THEN extract_datetime(target)
    ELSE IF target.name \in fn.fails THEN FnRaise(fn.error)
    ELSE IF target.name \in fn.accepts THEN Returned(SchemaBy(fn, target))
    ELSE Returned(Nothing)

\* Exceptions that are not instances of Exception.
BaseExceptionsOnly == {"KeyboardInterrupt", "SystemExit", "GeneratorExit"}

\* The outcome of annotation_to_schema.
NodeOk(n) == [status |-> "ok", node |-> n]
NodeRaise(e) == [status |-> e, node |-> UndefinedNode]

\* The outcome of extract_schema: the schema, or the exception with its cause
\* and the callable its message names; and, of the top call, the functions
\* consulted in order and whether the signature was asked for.
NoSchema == [t |-> "NoSchema"]
Extraction(status, schema, cause, named, consulted, introspected) ==
    [status |-> status, schema |-> schema, cause |-> cause, named |-> named,
     consulted |-> consulted, introspected |-> introspected]
ImplOk(schema, consulted, introspected) ==
    Extraction("ok", schema, "none", "", consulted, introspected)
ImplRaise(e, consulted, introspected) ==
    Extraction(e, NoSchema, "none", "", consulted, introspected)

\* What object.__init__ gives a class that defines no __init__ of its own, and
\* a builtin class that inspect.signature finds no signature for.
ObjectInitSignature ==
    Signature(<<Parameter("self", Empty, FALSE), Parameter("args", Empty, FALSE),
                Parameter("kwargs", Empty, FALSE)>>, Empty)
ObjectInitDoc == Docstring(Hint("Initialize self."), NoHint, <<>>)
Builtin(name) ==
    Callable(name, TRUE, NoSignature("ValueError"), ObjectInitSignature,
             Docstring(Hint("A builtin."), NoHint, <<>>), ObjectInitDoc)
\* class name: def __init__(self, <parameters>), with the docstrings given.
ClassOf(name, parameters, doc, init_doc) ==
    Callable(name, TRUE, Signature(parameters, Empty),
             Signature(<<Parameter("self", Empty, FALSE)>> \o parameters, Empty), doc, init_doc)
\* Something inspect.signature rejects: not a callable (TypeError), or an
\* annotation that eval_str cannot evaluate (NameError).
Unsigned(name, e) == Function(name, NoSignature(e), NoDocstring)

\* class Inner: m: int, as the Object node Inner above.
InnerClass ==
    ClassOf("Inner", <<Parameter("m", Class("int"), FALSE)>>,
            Docstring(Hint("Inner."), NoHint, <<>>), ObjectInitDoc)
\* A class with a parameter of an unsupported type, set[int].
BrokenClass ==
    ClassOf("Broken", <<Parameter("s", GenericAlias("set", <<Class("int")>>), FALSE)>>,
            NoDocstring, ObjectInitDoc)
\* class Foo: a: int, the class the functions users register know.
FooClass == ClassOf("Foo", <<Parameter("a", Class("int"), FALSE)>>, NoDocstring, ObjectInitDoc)
\* The object an annotation without origin is: a class of the program, a
\* builtin, or something that is no callable at all.
ClassNamed(annotation) ==
    IF annotation = Class("Inner") THEN InnerClass
    ELSE IF annotation = Class("Foo") THEN FooClass
    ELSE IF annotation = Class("Broken") THEN BrokenClass
    ELSE IF annotation \in {Class("datetime"), Class("bytes")} THEN Builtin(annotation.name)
    ELSE Unsigned("object", "TypeError")

RECURSIVE annotation_to_schema(_, _)
RECURSIVE extract_schema(_, _)

\* init_schema.call_schema
CallSchemaOf(r) == IF r.status = "ok" THEN NodeOk(r.schema.call_schema) ELSE NodeRaise(r.status)

RECURSIVE ArgSchemas(_, _, _)
ArgsCons(n, rs) ==
    IF rs.status # "ok" THEN rs ELSE [status |-> "ok", nodes |-> <<n>> \o rs.nodes]
ArgsAfter(first, fns, rest, none_arm) ==
    IF first.status # "ok" THEN [status |-> first.status, nodes |-> <<>>]
    ELSE ArgsCons(first.node, ArgSchemas(fns, rest, none_arm))
\* [self.annotation_to_schema(arg) for arg in args], with None for NoneType
\* where none_arm tells so: the schemas, or the first exception.
ArgSchemas(fns, args, none_arm) ==
    IF args = <<>> THEN [status |-> "ok", nodes |-> <<>>]
    ELSE ArgsAfter(IF none_arm /\ Head(args) = NoneType THEN NodeOk(NoneOption)
                   ELSE annotation_to_schema(fns, Head(args)),
                   fns, Tail(args), none_arm)

UnionOf(rs) == IF rs.status # "ok" THEN NodeRaise(rs.status) ELSE NodeOk(UnionNode(rs.nodes))
TupleOf(rs) == IF rs.status # "ok" THEN NodeRaise(rs.status) ELSE NodeOk(TupleNode(rs.nodes))
SequenceOf(r) == IF r.status # "ok" THEN r ELSE NodeOk(SequenceNode(r.node))
MappingOf(rs) ==
    IF rs.status # "ok" THEN NodeRaise(rs.status)
    ELSE NodeOk(MappingNode(rs.nodes[1], rs.nodes[2]))

\* annotation_to_schema from `if annotation in [int, float, str, bool]:` on.
FromNormalized(fns, annotation, origin, args) ==
    IF annotation \in {Class(p) : p \in PrimitiveTypes} THEN NodeOk(PrimitiveNode(annotation.name))
    ELSE IF origin = NoOrigin THEN CallSchemaOf(extract_schema(fns, ClassNamed(annotation)))
    ELSE IF origin = "Literal" THEN NodeOk(LiteralNode([j \in DOMAIN args |-> args[j].name]))
    ELSE IF origin \in {"Union", "UnionType"} THEN UnionOf(ArgSchemas(fns, args, TRUE))
    ELSE IF origin = "list"
         THEN IF Len(args) # 1 THEN NodeRaise("AssertionError")
              ELSE SequenceOf(annotation_to_schema(fns, args[1]))
    ELSE IF origin = "tuple"
         THEN IF Len(args) = 2 /\ args[2] = Ellipsis
              THEN SequenceOf(annotation_to_schema(fns, args[1]))
              ELSE TupleOf(ArgSchemas(fns, args, FALSE))
    ELSE IF origin = "dict"
         THEN IF Len(args) # 2 THEN NodeRaise("AssertionError")
              ELSE MappingOf(ArgSchemas(fns, args, FALSE))
    ELSE NodeRaise("ValueError")

AfterNormalize(fns, r) ==
    IF r.status # "ok" THEN NodeRaise(r.status)
    ELSE FromNormalized(fns, r.ann, get_origin(r.ann), get_args(r.ann))

annotation_to_schema(fns, annotation) ==
    IF annotation \in {Class("Any"), Class("None")} THEN NodeOk(UndefinedNode)
    ELSE AfterNormalize(fns, normalize_annotation(annotation, TRUE))

\* The schema of a parameter or of the return value: Undefined without an
\* annotation.
AnnotatedSchema(fns, annotation) ==
    IF annotation = Empty THEN NodeOk(UndefinedNode) ELSE annotation_to_schema(fns, annotation)

RECURSIVE FieldLoop(_, _, _)
FieldCons(f, rs) ==
    IF rs.status # "ok" THEN rs ELSE [status |-> "ok", fields |-> <<f>> \o rs.fields]
\* FieldAfter with every field required.
FieldAfter_AllRequired(arg_schema, param, fns, rest, param_to_hint) ==
    IF arg_schema.status # "ok" THEN [status |-> arg_schema.status, fields |-> <<>>]
    ELSE FieldCons(ObjectField(param.name, arg_schema.node, HintOf(param_to_hint, param.name), TRUE),
                   FieldLoop(fns, rest, param_to_hint))
FieldAfter(arg_schema, param, fns, rest, param_to_hint) ==
    IF arg_schema.status # "ok" THEN [status |-> arg_schema.status, fields |-> <<>>]
    ELSE FieldCons(ObjectField(param.name, arg_schema.node, HintOf(param_to_hint, param.name),
                               ~param.has_default),
                   FieldLoop(fns, rest, param_to_hint))
\* The loop over signature.parameters.values(): the fields, or the first
\* exception.
FieldLoop(fns, parameters, param_to_hint) ==
    IF parameters = <<>> THEN [status |-> "ok", fields |-> <<>>]
    ELSE FieldAfter(AnnotatedSchema(fns, Head(parameters).annotation), Head(parameters),
                    fns, Tail(parameters), param_to_hint)

\* _extract_schema_impl after the extraction functions, step by step; all of
\* fns were consulted.
WithFields(fns, target, hints, return_schema, rs) ==
    IF rs.status # "ok" THEN ImplRaise(rs.status, fns, TRUE)
    ELSE ImplOk(CallableSchema(ObjectNode(target.name, FALSE, {}, rs.fields, hints.object_hint),
                               return_schema, hints.long_decsription),
                fns, TRUE)
WithReturn(fns, target, signature, hints, ret) ==
    IF ret.status # "ok" THEN ImplRaise(ret.status, fns, TRUE)
    ELSE WithFields(fns, target, hints, ret.node,
                    FieldLoop(fns, signature.parameters, hints.param_to_hint))
WithHints(fns, target, signature, hints) ==
    IF hints.status # "ok" THEN ImplRaise(hints.status, fns, TRUE)
    ELSE WithReturn(fns, target, signature, hints,
                    AnnotatedSchema(fns, signature.return_annotation))
WithSignature(fns, target, signature) ==
    IF signature.status # "ok" THEN ImplRaise(signature.status, fns, TRUE)
    ELSE WithHints(fns, target, signature, extract_hints(target))
Introspect(fns, target) == WithSignature(fns, target, SignatureOf(target))

RECURSIVE FnLoop(_, _, _)
\* AfterFn going on to the later functions, whose schema replaces this one's.
AfterFn_LastWins(fns, target, i, r) ==
    IF r.status # "ok" THEN ImplRaise(r.status, SubSeq(fns, 1, i), FALSE)
    ELSE IF r.schema # Nothing /\ FnLoop(fns, target, i + 1).introspected
         THEN ImplOk(r.schema, fns, FALSE)
    ELSE FnLoop(fns, target, i + 1)
\* `if schema is not None: return schema`
AfterFn(fns, target, i, r) ==
    IF r.status # "ok" THEN ImplRaise(r.status, SubSeq(fns, 1, i), FALSE)
    ELSE IF r.schema # Nothing THEN ImplOk(r.schema, SubSeq(fns, 1, i), FALSE)
    ELSE FnLoop(fns, target, i + 1)
\* for fn in self.exctractor_fns, from the i-th on
FnLoop(fns, target, i) ==
    IF i > Len(fns) THEN Introspect(fns, target)
    ELSE AfterFn(fns, target, i, ApplyFn(fns[i], target))

extract_schema_impl(fns, target) == FnLoop(fns, target, 1)

\* WrapError letting every exception through.
WrapError_Uncaught(target, r) == r
\* except Exception as e: raise SchemaExtractionError(...) from e
WrapError(target, r) ==
    IF r.status = "ok" \/ r.status \in BaseExceptionsOnly THEN r
    ELSE [r EXCEPT !.status = "SchemaExtractionError", !.cause = r.status, !.named = target.name]

extract_schema(fns, target) == WrapError(target, extract_schema_impl(fns, target))

-----------------------------------------------------------------------------
(* The state machines share the variables; each leaves the others'         *)
(* variables at their idle values.                                         *)

IdleSchema ==
    /\ value = NoVal
    /\ hint = NoHint
    /\ op = "idle"
    /\ result = [status |-> "none"]
IdleState == InvocationState(<<>>, <<>>, FALSE, 0)
IdleRun == [pc |-> "idle", N |-> 0, model_calls |-> 0, raised |-> NoExc]
IdleSeen == [every_failing |-> TRUE, only_retryable |-> TRUE, first_failing |-> ""]
IdleRequest ==
    [pc |-> "idle", num_retries |-> 0, retry_on_request_limit |-> FALSE,
     attempts |-> <<>>, raised |-> "none"]
IdleTurn ==
    [before |-> IdleState, response |-> ResponseOption(AssistantMessage(JNull, <<>>), "none"),
     tolerated |-> 0, evaluated |-> <<>>]
IdleSelection ==
    [pc |-> "idle", models |-> <<>>, preferred_models |-> <<>>, model |-> NoModel,
     raised |-> "none", called |-> <<>>]
IdleContext ==
    [current |-> NoRuntime, tokens |-> <<>>, token |-> [r \in Runtimes |-> 0],
     blocks |-> <<>>, raised |-> "none", got |-> NotYet, reentered |-> FALSE]
IdleRuntime ==
    /\ state = IdleState /\ run = IdleRun /\ seen = IdleSeen /\ turn = IdleTurn
    /\ selection = IdleSelection
    /\ context = IdleContext
IdleReply == request = IdleRequest
IdleCallable == callable = [pc |-> "idle"]
IdleExtraction == extraction = [pc |-> "idle"]
IdleNormalize == norm = [pc |-> "idle"]

-----------------------------------------------------------------------------
(* The schema engine as a state machine: a node, then one operation on it. *)

Init ==
    /\ node \in Nodes
    /\ IdleSchema
    /\ IdleRuntime
    /\ IdleReply
    /\ IdleCallable
    /\ IdleExtraction
    /\ IdleNormalize

\* node.eval(value)
DoEval ==
    /\ op = "idle"
    /\ \E v \in InputsFor(node) :
          /\ value' = v
          /\ result' = Eval(node, v)
    /\ op' = "eval"
    /\ UNCHANGED <<node, hint>>
    /\ UNCHANGED <<runtimeVars, replyVars, callableVars, extractionVars, normalizeVars>>

\* node.json_schema(parent_hint)
DoJsonSchema ==
    /\ op = "idle"
    /\ \E h \in Hints :
          /\ hint' = h
          /\ result' = JsonSchema(node, h)
    /\ op' = "json_schema"
    /\ UNCHANGED <<node, value>>
    /\ UNCHANGED <<runtimeVars, replyVars, callableVars, extractionVars, normalizeVars>>

Next == DoEval \/ DoJsonSchema

vars == <<schemaVars, runtimeVars, replyVars, callableVars, extractionVars, normalizeVars>>

Spec == Init /\ [][Next]_vars

-----------------------------------------------------------------------------
(* The tool loop as a state machine: Runtime.execute starts a run, and     *)
(* every step of the run is one model call and the handling of its reply.  *)

RuntimeInit ==
    /\ node = UndefinedNode
    /\ IdleSchema
    /\ IdleRuntime
    /\ IdleReply
    /\ IdleCallable
    /\ IdleExtraction
    /\ IdleNormalize

\* Runtime.execute: _prepare_kwargs, then the InvocationState that
\* call_and_use_tools builds.
Execute ==
    /\ run.pc = "idle"
    /\ \E response_node \in ReturnNodes, N \in 0..MaxRetries :
          /\ state' = InvocationState(<<UserMessage(JStr("2 + 2 = ?"))>>,
                                      prepare_tool_params(response_node),
                                      ~HasResponseSchema(response_node), N)
          /\ run' = [pc |-> "calling", N |-> N, model_calls |-> 0, raised |-> NoExc]
    /\ UNCHANGED <<seen, turn, selection, context>>
    /\ UNCHANGED <<schemaVars, replyVars, callableVars, extractionVars, normalizeVars>>

\* One turn of the loop of call_and_use_tools: model.reply, then
\* _handle_model_response, then the test of state.result.  A run is followed
\* for at most N + 2 model calls.
Handled(h) ==
    /\ state' = h.state
    /\ run' = [run EXCEPT
                  !.model_calls = @ + 1,
                  !.raised = h.raised,
                  !.pc = IF h.raised # NoExc THEN "raised"
                         ELSE IF h.state.result # JNull THEN "returned"
                         ELSE "calling"]

\* The responses so far whose validation errors went back to the model.
Tolerated(response, h) ==
    IF h.raised = NoExc /\ Collects(response, state, Outcomes(response, state.tool_params))
    THEN turn.tolerated + 1
    ELSE turn.tolerated

CallModel ==
    /\ run.pc = "calling"
    /\ run.model_calls <= run.N + 1
    /\ \E response \in Responses :
          /\ Handled(handle_model_response(response, state))
          /\ seen' = Observe(response, state, Outcomes(response, state.tool_params))
          /\ turn' = [before |-> state, response |-> response,
                      evaluated |-> Evaluated(response, state),
                      tolerated |-> Tolerated(response, handle_model_response(response, state))]
    /\ UNCHANGED <<selection, context>>
    /\ UNCHANGED <<schemaVars, replyVars, callableVars, extractionVars, normalizeVars>>

RuntimeNext == Execute \/ CallModel

RuntimeSpec == RuntimeInit /\ [][RuntimeNext]_vars

-----------------------------------------------------------------------------
(* Model selection as a state machine: a Runtime is built with its models, *)
(* it executes a function that has its preferred models, and the loop of   *)
(* call_and_use_tools calls the model it was given.                        *)

SelectionInit ==
    /\ node = UndefinedNode
    /\ IdleSchema
    /\ IdleRuntime
    /\ IdleReply
    /\ IdleCallable
    /\ IdleExtraction
    /\ IdleNormalize

\* Runtime.__init__
NewRuntime ==
    /\ selection.pc = "idle"
    /\ \E models \in SeqsUpTo(Models, MaxModels) :
          selection' = [IdleSelection EXCEPT !.pc = "ready", !.models = models]
    /\ UNCHANGED <<state, run, seen, turn, context>>
    /\ UNCHANGED <<schemaVars, replyVars, callableVars, extractionVars, normalizeVars>>

\* Runtime.execute up to the call of call_and_use_tools: _prepare_kwargs
\* selects the model.
Prepare ==
    /\ selection.pc = "ready"
    /\ \E preferred_models \in SeqsUpTo(ModelNames, MaxPreferred) :
          selection' =
              [selection EXCEPT
                  !.preferred_models = preferred_models,
                  !.model = select_model(selection.models, preferred_models).model,
                  !.raised = select_model(selection.models, preferred_models).raised,
                  !.pc = IF select_model(selection.models, preferred_models).raised = "none"
                         THEN "running" ELSE "raised"]
    /\ UNCHANGED <<state, run, seen, turn, context>>
    /\ UNCHANGED <<schemaVars, replyVars, callableVars, extractionVars, normalizeVars>>

\* model.reply(...) in the loop of call_and_use_tools; the execution is
\* followed for MaxRetries + 1 model calls.
ModelReply ==
    /\ selection.pc = "running"
    /\ Len(selection.called) <= MaxRetries
    /\ selection' = [selection EXCEPT !.called = Append(@, selection.model.id)]
    /\ UNCHANGED <<state, run, seen, turn, context>>
    /\ UNCHANGED <<schemaVars, replyVars, callableVars, extractionVars, normalizeVars>>

SelectionNext == NewRuntime \/ Prepare \/ ModelReply

SelectionSpec == SelectionInit /\ [][SelectionNext]_vars

-----------------------------------------------------------------------------
(* The active Runtime as a state machine: `with` blocks on Runtime         *)
(* instances are entered and left, the innermost first, in one thread, and *)
(* get_runtime is called in between.                                       *)

ContextInit ==
    /\ node = UndefinedNode
    /\ IdleSchema
    /\ IdleRuntime
    /\ IdleReply
    /\ IdleCallable
    /\ IdleExtraction
    /\ IdleNormalize

\* Runtime.__enter__: self._token = _global_runtime.set(self)
Enter ==
    /\ Len(context.tokens) < MaxEntries
    /\ \E r \in Runtimes :
          context' = [context EXCEPT
                         !.tokens = Append(@, Token(context.current)),
                         !.token[r] = Len(context.tokens) + 1,
                         !.current = r,
                         !.blocks = Append(@, r),
                         !.got = NotYet,
                         !.reentered = @ \/ (\E j \in DOMAIN context.blocks :
                                                context.blocks[j] = r)]
    /\ UNCHANGED <<state, run, seen, turn, selection>>
    /\ UNCHANGED <<schemaVars, replyVars, callableVars, extractionVars, normalizeVars>>

\* _global_runtime.reset(token): a token that has been used is refused with
\* RuntimeError; otherwise the variable gets the value the token holds.
reset(c, t) ==
    IF c.tokens[t].used THEN [c EXCEPT !.raised = "RuntimeError"]
    ELSE [c EXCEPT !.current = c.tokens[t].old_value, !.tokens[t].used = TRUE,
                   !.raised = "none"]

\* Runtime.__exit__ of the innermost open block:
\* _global_runtime.reset(self._token)
Exit ==
    /\ context.blocks # <<>>
    /\ context' =
          [reset(context, context.token[context.blocks[Len(context.blocks)]]) EXCEPT
              !.blocks = SubSeq(@, 1, Len(@) - 1),
              !.got = NotYet]
    /\ UNCHANGED <<state, run, seen, turn, selection>>
    /\ UNCHANGED <<schemaVars, replyVars, callableVars, extractionVars, normalizeVars>>

\* get_runtime()
GetRuntime ==
    /\ context.got = NotYet
    /\ context' = [context EXCEPT !.got = get_runtime(context.current)]
    /\ UNCHANGED <<state, run, seen, turn, selection>>
    /\ UNCHANGED <<schemaVars, replyVars, callableVars, extractionVars, normalizeVars>>

ContextNext == Enter \/ Exit \/ GetRuntime

ContextSpec == ContextInit /\ [][ContextNext]_vars

-----------------------------------------------------------------------------
(* OpenAIModel.reply as a state machine: a model is built, reply is called *)
(* on it, and every step is one attempt of the retried function.           *)

ReplyInit ==
    /\ node = UndefinedNode
    /\ IdleSchema
    /\ IdleRuntime
    /\ IdleReply
    /\ IdleCallable
    /\ IdleExtraction
    /\ IdleNormalize

\* OpenAIModel(..., num_retries, retry_on_request_limit).reply(...)
Reply ==
    /\ request.pc = "idle"
    /\ \E num_retries \in 0..MaxNumRetries, retry_on_request_limit \in BOOLEAN :
          request' = [pc |-> "attempting", num_retries |-> num_retries,
                      retry_on_request_limit |-> retry_on_request_limit,
                      attempts |-> <<>>, raised |-> "none"]
    /\ UNCHANGED <<schemaVars, runtimeVars, callableVars, extractionVars, normalizeVars>>

\* One attempt and what the retry decorator does with its outcome: return
\* it, raise it (reraise=True), or go on to the next attempt.
Attempt ==
    /\ request.pc = "attempting"
    /\ \E outcome \in EndpointOutcomes :
          LET e == reply_with_retry(outcome)
              attempts == Append(request.attempts, e)
              again == /\ e # "ok"
                       /\ retry_conditions(request.retry_on_request_limit, e)
                       /\ ~stop_after_attempt(request.num_retries, Len(attempts))
          IN  request' = [request EXCEPT
                             !.attempts = attempts,
                             !.pc = IF e = "ok" THEN "returned"
                                    ELSE IF again THEN "attempting"
                                    ELSE "raised",
                             !.raised = IF e = "ok" \/ again THEN "none" ELSE e]
    /\ UNCHANGED <<schemaVars, runtimeVars, callableVars, extractionVars, normalizeVars>>

ReplyNext == Reply \/ Attempt

ReplySpec == ReplyInit /\ [][ReplyNext]_vars

-----------------------------------------------------------------------------
(* CallableSchema (wanga/schema/schema.py): the schema of a call, of its   *)
(* return value, and the long description.  A call of json_schema gives a  *)
(* document or an exception and leaves the receiver as `self` tells.       *)

MaxCalls == 2       \* most calls made on one CallableSchema


\* attrs.evolve(node, hint=...): a new node, the old one is not touched.
evolve(n, h) == [n EXCEPT !.hint = h]

Flavors == {"openai", "anthropic", "other"}

\* full_description of CallableSchema.json_schema.
full_description(c, include_long_description) ==
    JoinHints(c.call_schema.hint,
              IF include_long_description THEN c.long_description ELSE NoHint)

\* The envelope around the projected parameters; `if full_description:`.
Envelope(c, key, parameters, description) ==
    IF parameters.status # "ok" THEN parameters
    ELSE Projected(WithDescription(
             (key :> parameters.doc) @@ [name |-> c.call_schema.name], description))

\* CallableSchema.json_schema writing the stripped call schema back.
CallableSchema_json_schema_StripsInPlace(c, flavor, include_long_description) ==
    IF flavor \notin {"anthropic", "openai"}
    THEN Fail("ValueError") @@ [self |-> c]
    ELSE Envelope(c, IF flavor = "anthropic" THEN "input_schema" ELSE "parameters",
                  JsonSchema(evolve(c.call_schema, NoHint), NoHint),
                  full_description(c, include_long_description))
         @@ [self |-> [c EXCEPT !.call_schema = evolve(c.call_schema, NoHint)]]

\* CallableSchema.json_schema putting the node's own hint inside too.
CallableSchema_json_schema_KeepsHint(c, flavor, include_long_description) ==
    IF flavor \notin {"anthropic", "openai"}
    THEN Fail("ValueError") @@ [self |-> c]
    ELSE Envelope(c, IF flavor = "anthropic" THEN "input_schema" ELSE "parameters",
                  JsonSchema(c.call_schema, NoHint),
                  full_description(c, include_long_description))
         @@ [self |-> c]

CallableSchema_json_schema(c, flavor, include_long_description) ==
    IF flavor \notin {"anthropic", "openai"}
    THEN Fail("ValueError") @@ [self |-> c]
    ELSE Envelope(c, IF flavor = "anthropic" THEN "input_schema" ELSE "parameters",
                  JsonSchema(evolve(c.call_schema, NoHint), NoHint),
                  full_description(c, include_long_description))
         @@ [self |-> c]

\* The call schemas: the documented objects, def f(a: int, b: Inner = ...)
\* and def f(a).
CallSchemas ==
    HintedObjects
    \cup {ObjectOf(<<[schema |-> PrimitiveNode("int"), required |-> TRUE, pos_only |-> FALSE],
                     [schema |-> Inner, required |-> FALSE, pos_only |-> FALSE]>>, FALSE),
          ObjectOf(<<[schema |-> UndefinedNode, required |-> TRUE, pos_only |-> FALSE]>>, FALSE)}
CallableSchemas ==
    {CallableSchema(cs, PrimitiveNode("int"), ld) :
        cs \in CallSchemas, ld \in {NoHint, Hint(""), Hint("Long description.")}}
CallValues ==
    {JDict(<<Entry("a", JInt(1))>>), JDict(<<Entry("b", JStr("x")), Entry("a", JInt(2))>>),
     JDict(<<Entry("a", JStr("x"))>>), JNull}

NoFlavor == [flavor |-> "none", include_long_description |-> FALSE]
CallRecord(name, flavor, value_, hint_, out) ==
    [op |-> name, flavor |-> flavor, value |-> value_, hint |-> hint_, out |-> out]

CallableInit ==
    /\ node = UndefinedNode
    /\ IdleSchema
    /\ IdleRuntime
    /\ IdleReply
    /\ IdleCallable
    /\ IdleExtraction
    /\ IdleNormalize

\* extract_schema hands out a CallableSchema.
Extracted ==
    /\ callable.pc = "idle"
    /\ \E c \in CallableSchemas :
          callable' = [pc |-> "ready", schema |-> c, extracted |-> c, calls |-> <<>>]
    /\ UNCHANGED <<schemaVars, runtimeVars, replyVars, extractionVars, normalizeVars>>

\* The state after a call with outcome r, which names the receiver after it.
AfterJsonSchema(flavor, r) ==
    callable' = [callable EXCEPT
                    !.schema = r.self,
                    !.calls = Append(@, CallRecord("callable_json_schema", flavor, NoVal, NoHint,
                                                   [status |-> r.status, doc |-> r.doc]))]

\* schema.json_schema(flavor, include_long_description)
CallJsonSchema ==
    /\ callable.pc = "ready"
    /\ Len(callable.calls) < MaxCalls
    /\ \E f \in Flavors, i \in BOOLEAN :
          AfterJsonSchema([flavor |-> f, include_long_description |-> i],
                          CallableSchema_json_schema(callable.schema, f, i))
    /\ UNCHANGED <<schemaVars, runtimeVars, replyVars, extractionVars, normalizeVars>>

\* schema.call_schema.json_schema(parent_hint)
CallNodeJsonSchema ==
    /\ callable.pc = "ready"
    /\ Len(callable.calls) < MaxCalls
    /\ \E h \in Hints :
          callable' = [callable EXCEPT
                          !.calls = Append(@, CallRecord("json_schema", NoFlavor, NoVal, h,
                                                         JsonSchema(callable.schema.call_schema, h)))]
    /\ UNCHANGED <<schemaVars, runtimeVars, replyVars, extractionVars, normalizeVars>>

\* schema.eval(value)
CallEval ==
    /\ callable.pc = "ready"
    /\ Len(callable.calls) < MaxCalls
    /\ \E v \in CallValues :
          callable' = [callable EXCEPT
                          !.calls = Append(@, CallRecord("eval", NoFlavor, v, NoHint,
                                                         Eval(callable.schema.call_schema, v)))]
    /\ UNCHANGED <<schemaVars, runtimeVars, replyVars, extractionVars, normalizeVars>>

CallableNext == Extracted \/ CallJsonSchema \/ CallNodeJsonSchema \/ CallEval

CallableSpec == CallableInit /\ [][CallableNext]_vars

-----------------------------------------------------------------------------
(* normalize_annotation as a state machine: it is applied to an            *)
(* annotation, and then to what it returned.                               *)

NotRun == [status |-> "none", ann |-> NoAnn]

NormalizeInit ==
    /\ node = UndefinedNode
    /\ IdleSchema
    /\ IdleRuntime
    /\ IdleReply
    /\ IdleCallable
    /\ IdleExtraction
    /\ IdleNormalize

\* normalize_annotation(annotation, concretize)
Normalize ==
    /\ norm.pc = "idle"
    /\ \E a \in Annotations, c \in BOOLEAN :
          norm' = [pc |-> "once", annotation |-> a, concretize |-> c,
                   first |-> normalize_annotation(a, c), second |-> NotRun]
    /\ UNCHANGED <<schemaVars, runtimeVars, replyVars, callableVars, extractionVars>>

\* normalize_annotation(normalize_annotation(annotation, concretize), concretize)
NormalizeAgain ==
    /\ norm.pc = "once"
    /\ norm.first.status = "ok"
    /\ norm' = [norm EXCEPT !.pc = "twice",
                            !.second = normalize_annotation(norm.first.ann, norm.concretize)]
    /\ UNCHANGED <<schemaVars, runtimeVars, replyVars, callableVars, extractionVars>>

NormalizeNext == Normalize \/ NormalizeAgain

NormalizeSpec == NormalizeInit /\ [][NormalizeNext]_vars

-----------------------------------------------------------------------------
(* SchemaExtractor as a state machine: an extractor is constructed, and    *)
(* then functions are registered on it and schemas extracted with it, in   *)
(* any order.  Extractions share nothing but the list of functions, which  *)
(* they only read, so one extraction at a time shows what any number do.   *)

MaxRegistered == 1  \* most calls of register_extract_fn on one extractor

\* Functions a user registers: two that return a schema of their own for Foo
\* (one of them for datetime too) and two that raise on Foo.
UserFns ==
    {UserFn("claims_foo", {"Foo", "datetime"}, {}, "none"),
     UserFn("also_foo", {"Foo"}, {}, "none"),
     UserFn("fails_foo", {}, {"Foo"}, "RuntimeError"),
     UserFn("interrupted", {}, {"Foo"}, "KeyboardInterrupt")}

\* Parameters: unannotated, int and Optional[str], each with and without a
\* default; the j-th parameter is named FieldNames[j].
ParamKinds ==
    {[annotation |-> a, has_default |-> d] :
        a \in {Empty, Class("int"), TypingUnion(<<Class("str"), NoneType>>)}, d \in BOOLEAN}
ParametersOf(kinds) ==
    [j \in DOMAIN kinds |-> Parameter(FieldNames[j], kinds[j].annotation, kinds[j].has_default)]
ParameterLists == {ParametersOf(kinds) : kinds \in SeqsUpTo(ParamKinds, MaxFields)}

\* def f(...) with and without a return annotation, class C with __init__(self,
\* ...), and a class B that inspect.signature finds no signature for.
SignatureTargets ==
    {Function("f", Signature(ps, ret), NoDocstring) :
        ps \in ParameterLists, ret \in {Empty, Class("int"), Class("None")}}
    \cup {ClassOf("C", ps, NoDocstring, ObjectInitDoc) : ps \in ParameterLists}
    \cup {Callable("B", TRUE, NoSignature("ValueError"),
                   Signature(<<Parameter("self", Empty, FALSE)>> \o ps, Empty),
                   NoDocstring, ObjectInitDoc) : ps \in ParameterLists}

\* Docstrings with a missing, an empty and a real short description, with and
\* without a long one, documenting a, b with an empty description, or nothing.
Docstrings(short, long, the_a, the_b) ==
    {NoDocstring}
    \cup {Docstring(s, l, ps) :
            s \in {NoHint, Hint(""), Hint(short)}, l \in {NoHint, Hint(long)},
            ps \in {<<>>, <<DocParam("a", Hint(the_a))>>,
                    <<DocParam("a", Hint("")), DocParam("b", Hint(the_b))>>}}
BazParameters == <<Parameter("a", Class("int"), FALSE), Parameter("b", Empty, FALSE)>>
\* class Baz of test_extract_schema, with every pair of docstrings.
DocumentedTargets ==
    {ClassOf("Baz", BazParameters, doc, init_doc) :
        doc \in Docstrings("I am Baz.", "Long Baz.", "The a.", "The b."),
        init_doc \in Docstrings("Init Baz.", "Long init.", "Init a.", "Init b.")}
    \cup {Function("bar", Signature(BazParameters, Class("int")), doc) :
            doc \in Docstrings("Bar.", "Blah blah blah.", "The a.", "The b.")}

\* Annotations of every shape annotation_to_schema tells apart: supported ones,
\* and set[int], list[int, str], dict[str], a class that cannot be extracted,
\* a union written int | str and a list of Optional[int].
ShapedAnnotations ==
    {Class("float"), Class("Any"), Class("Inner"), Class("datetime"), Class("bytes"),
     TypingAlias("list", <<Class("int")>>),
     GenericAlias("collections.abc.Sequence", <<Class("Inner")>>),
     GenericAlias("tuple", <<Class("int"), Ellipsis>>),
     GenericAlias("tuple", <<Class("int"), Class("str")>>),
     GenericAlias("dict", <<Class("str"), Class("int")>>),
     Literal(<<Option(JStr("hehe")), Option(JInt(1))>>),
     TypingUnion(<<Literal(<<Option(JStr("hehe"))>>), Class("float")>>),
     Annotated(Class("int"), Tag("tag")),
     GenericAlias("set", <<Class("int")>>),
     GenericAlias("list", <<Class("int"), Class("str")>>),
     GenericAlias("dict", <<Class("str")>>),
     GenericAlias("dict", <<Class("Broken"), Class("int")>>),
     Class("Broken"), Class("Foo"),
     Or(Class("int"), Class("str")),
     GenericAlias("list", <<TypingUnion(<<Class("int"), NoneType>>)>>)}
ShapedTargets ==
    {Function("g", Signature(<<Parameter("a", a, FALSE), Parameter("b", Class("int"), TRUE)>>, Empty),
              NoDocstring) : a \in ShapedAnnotations}
    \cup {Function("g", Signature(<<Parameter("a", Class("int"), FALSE)>>, a), NoDocstring) :
            a \in ShapedAnnotations}

\* Callables the extraction functions know, and callables whose signature or
\* docstring cannot be read.
OtherTargets ==
    {Builtin("date"), Builtin("datetime"), Builtin("time"), Builtin("timedelta"),
     FooClass,
     Unsigned("three", "TypeError"), Unsigned("h", "NameError"),
     Callable("E", TRUE, NoSignature("ValueError"), NoSignature("ValueError"),
              NoDocstring, ObjectInitDoc),
     Function("h", Signature(<<Parameter("a", Class("int"), FALSE)>>, Empty), BadDocstring),
     ClassOf("H", <<Parameter("a", Class("int"), FALSE)>>, NoDocstring, BadDocstring)}

Targets == SignatureTargets \cup DocumentedTargets \cup ShapedTargets \cup OtherTargets

NoTarget == Unsigned("", "none")
NotExtracted == Extraction("none", NoSchema, "none", "", <<>>, FALSE)

ExtractionInit ==
    /\ node = UndefinedNode
    /\ IdleSchema
    /\ IdleRuntime
    /\ IdleReply
    /\ IdleCallable
    /\ IdleExtraction
    /\ IdleNormalize

\* self.exctractor_fns.append(fn)
register_extract_fn(exctractor_fns, fn) == Append(exctractor_fns, fn)

\* SchemaExtractor(exctractor_fns): __attrs_post_init__ registers
\* extract_datetime after the functions given.
NewExtractor ==
    /\ extraction.pc = "idle"
    /\ \E given \in {<<>>} \cup {<<u>> : u \in UserFns} :
          extraction' = [pc |-> "ready",
                         exctractor_fns |-> register_extract_fn(given, ExtractDatetime),
                         constructed |-> register_extract_fn(given, ExtractDatetime),
                         registered |-> 0, target |-> NoTarget, used |-> <<>>,
                         outcome |-> NotExtracted]
    /\ UNCHANGED <<schemaVars, runtimeVars, replyVars, callableVars, normalizeVars>>

\* extractor.register_extract_fn(fn)
Register ==
    /\ extraction.pc # "idle"
    /\ extraction.registered < MaxRegistered
    /\ \E u \in UserFns :
          extraction' = [extraction EXCEPT
                            !.exctractor_fns = register_extract_fn(@, u),
                            !.registered = @ + 1]
    /\ UNCHANGED <<schemaVars, runtimeVars, replyVars, callableVars, normalizeVars>>

\* extractor.extract_schema(callable): of any callable the first time, and of
\* the same one from then on.
Extract ==
    /\ extraction.pc # "idle"
    /\ \E t \in (IF extraction.pc = "ready" THEN Targets ELSE {extraction.target}) :
          extraction' = [extraction EXCEPT
                            !.pc = "done", !.target = t, !.used = extraction.exctractor_fns,
                            !.outcome = extract_schema(extraction.exctractor_fns, t)]
    /\ UNCHANGED <<schemaVars, runtimeVars, replyVars, callableVars, normalizeVars>>

ExtractionNext == NewExtractor \/ Register \/ Extract

ExtractionSpec == ExtractionInit /\ [][ExtractionNext]_vars

-----------------------------------------------------------------------------
(* Properties of ObjectNode.eval.                                          *)

ObjectEvaluated == op = "eval" /\ node.t = "Object" /\ value.k = "dict"

KeyAt(j) == value.entries[j].key
IsField(name) == FieldIndexes(node, name) # {}
FieldNamed(name) == node.fields[CHOOSE j \in FieldIndexes(node, name) : TRUE]
UnknownKeys == {j \in DOMAIN value.entries : ~IsField(KeyAt(j))}
HasUnknownKey == UnknownKeys # {}
FirstUnknownKey == CHOOSE j \in UnknownKeys : \A i \in UnknownKeys : j <= i

\* What evaluating the j-th entry's value against its field's schema gives.
EntryOutcome(j) == Eval(FieldNamed(KeyAt(j)).schema, value.entries[j].val)

\* The calls of the node's own constructor among the calls made.
OwnCalls == {j \in DOMAIN result.calls : result.calls[j].fn = node.name}

\* C1 as stated: a JSON object with a key that names no declared field fails
\* with SchemaValidationError and the node's constructor is not invoked,
\* whatever the other keys are.
C1_UnknownKeyRaisesValidationError ==
    (ObjectEvaluated /\ HasUnknownKey) =>
        (result.status = "SchemaValidationError" /\ OwnCalls = {})

\* C1 amended: with an unknown key the evaluation never succeeds and the
\* node's constructor is never invoked; the error is SchemaValidationError
\* unless evaluating the value of a key listed before the first unknown key
\* raised another error, which is then the error of the evaluation.
C1_UnknownKeyNeverAccepted ==
    (ObjectEvaluated /\ HasUnknownKey) =>
        /\ result.status # "ok"
        /\ OwnCalls = {}
        /\ \/ result.status = "SchemaValidationError"
           \/ \E j \in 1..(FirstUnknownKey - 1) :
                 /\ EntryOutcome(j).status = result.status
                 /\ \A i \in 1..(j - 1) : EntryOutcome(i).status = "ok"

\* An unknown key that follows a key with a valid value is rejected.
C1_Witness ==
    /\ ObjectEvaluated /\ HasUnknownKey
    /\ FirstUnknownKey > 1
    /\ EntryOutcome(1).status = "ok"
    /\ result.status = "SchemaValidationError"

\* C2: when every key names a declared field and carries a valid value, the
\* constructor is invoked exactly when every required field is among the
\* keys; otherwise the evaluation fails with SchemaValidationError; and the
\* constructor receives the supplied fields and nothing else.
AllKeysValid ==
    \A j \in DOMAIN value.entries : IsField(KeyAt(j)) /\ EntryOutcome(j).status = "ok"
SuppliedKeys == {KeyAt(j) : j \in DOMAIN value.entries}
RequiredFields == {node.fields[j].name : j \in {i \in DOMAIN node.fields : node.fields[i].required}}
OwnCall == result.calls[CHOOSE j \in OwnCalls : TRUE]
C2_ConstructorIffRequiredPresent ==
    (ObjectEvaluated /\ AllKeysValid) =>
        IF RequiredFields \subseteq SuppliedKeys
        THEN /\ Cardinality(OwnCalls) = 1
             /\ Len(OwnCall.args) + Len(OwnCall.kwargs) = Len(value.entries)
             /\ {OwnCall.kwargs[j].key : j \in DOMAIN OwnCall.kwargs}
                    = SuppliedKeys \ node.pos_only
             /\ result.status = (IF node.raises THEN "ConstructorError" ELSE "ok")
        ELSE /\ result.status = "SchemaValidationError"
             /\ OwnCalls = {}

\* A call that leaves an optional field out, and a rejection for a missing
\* required field although the keys given are valid.
C2_Witness ==
    /\ ObjectEvaluated /\ AllKeysValid
    /\ \/ /\ result.status = "ok"
          /\ Len(value.entries) < Len(node.fields)
          /\ value.entries # <<>>
       \/ /\ result.status = "SchemaValidationError"
          /\ value.entries # <<>>

\* C3: on success the positional-only parameters reach the constructor by
\* position in field order and the other supplied fields by name.
RECURSIVE PositionalInFieldOrder(_)
PositionalInFieldOrder(fields) ==
    IF fields = <<>> THEN <<>>
    ELSE LET f == Head(fields)
             at == {j \in DOMAIN value.entries : KeyAt(j) = f.name}
         IN  (IF f.name \in node.pos_only /\ at # {}
              THEN <<EntryOutcome(CHOOSE j \in at : TRUE).val>>
              ELSE <<>>)
             \o PositionalInFieldOrder(Tail(fields))
C3_PositionalInFieldOrder ==
    (ObjectEvaluated /\ result.status = "ok") =>
        /\ result.val.args = PositionalInFieldOrder(node.fields)
        /\ {<<result.val.kwargs[j].key, result.val.kwargs[j].val>> :
                j \in DOMAIN result.val.kwargs}
             = {<<KeyAt(j), EntryOutcome(j).val>> :
                j \in {i \in DOMAIN value.entries : KeyAt(i) \notin node.pos_only}}

-----------------------------------------------------------------------------
(* Properties of the scalar nodes' eval.                                   *)

\* C4: PrimitiveNode.eval succeeds exactly when the value's kind is the
\* node's primitive kind, returning the value, except that an int against
\* float gives the equal float; every other mismatch -- a bool against int or
\* float included -- is a SchemaValidationError.
C4_PrimitiveExactKind ==
    (op = "eval" /\ node.t = "Primitive") =>
        IF value.k = node.primitive_type THEN result = Ok(value, <<>>)
        ELSE IF node.primitive_type = "float" /\ value.k = "int"
             THEN result = Ok(JFloat2(2 * value.i), <<>>)
        ELSE result.status = "SchemaValidationError"

\* The alternatives of a Union node that are schemas, in declared order.
RealOptions(n) == Filter(n.options, NoneOption)
OptionOutcome(j) == Eval(RealOptions(node)[j], value)
Succeeding == {j \in DOMAIN RealOptions(node) : OptionOutcome(j).status = "ok"}
FirstSucceeding == CHOOSE j \in Succeeding : \A i \in Succeeding : j <= i

\* C5: UnionNode.eval returns what the first alternative, in declared order,
\* that evaluates without a validation error returns; null is accepted only
\* through a null arm; when every alternative fails it raises
\* SchemaValidationError.  (Stated for unions whose alternatives either
\* succeed or fail with a validation error.)
C5_UnionFirstMatch ==
    (/\ op = "eval" /\ node.t = "Union"
     /\ \A j \in DOMAIN RealOptions(node) :
           OptionOutcome(j).status \in {"ok", "SchemaValidationError"}) =>
        IF Succeeding # {}
        THEN result.status = "ok" /\ result.val = OptionOutcome(FirstSucceeding).val
        ELSE IF value = JNull /\ UnionNode_is_optional(node) THEN result = Ok(JNull, <<>>)
        ELSE result.status = "SchemaValidationError"

\* C6: the Union of Literal["hehe"] and Primitive(float) evaluates 1.0
\* through the float alternative and "hehe" through the Literal alternative.
C6_LiteralFloatUnionEvaluates ==
    (/\ op = "eval"
     /\ node \in {UnionNode(<<LiteralNode(<<JStr("hehe")>>), PrimitiveNode("float")>>),
                  UnionNode(<<PrimitiveNode("float"), LiteralNode(<<JStr("hehe")>>)>>)}
     /\ value \in {JFloat2(2), JStr("hehe")}) =>
        result = Ok(value, <<>>)

-----------------------------------------------------------------------------
(* Properties of json_schema.                                              *)

OverPrimitivesOnly(n) == \A j \in DOMAIN RealOptions(n) : RealOptions(n)[j].t = "Primitive"
OptionalSingleton(n) == UnionNode_is_optional(n) /\ Len(RealOptions(n)) = 1

Unprojectable(n) ==
    \/ n.t \in {"Undefined", "Mapping", "Tuple"}
    \/ n.t = "Literal" /\ \E j \in DOMAIN n.options : n.options[j].k # "str"
    \/ n.t = "Union" /\ ~OverPrimitivesOnly(n) /\ ~OptionalSingleton(n)

\* C9: json_schema raises UnsupportedSchemaError, and nothing else, for an
\* Undefined, Mapping or Tuple node, a Literal with a non-string option and a
\* Union that is neither over primitives only nor an optional singleton,
\* under every parent hint.
C9_UnprojectableRaisesUnsupported ==
    (op = "json_schema" /\ Unprojectable(node)) =>
        result.status = "UnsupportedSchemaError"

\* The declared type names with "integer" collapsed out when "number" is there.
DeclaredNames(n) ==
    [j \in DOMAIN RealOptions(n) |-> type_to_jsonname(RealOptions(n)[j].primitive_type)]
CollapsedNames(n) ==
    IF InList(DeclaredNames(n), "number") THEN Filter(DeclaredNames(n), "integer")
    ELSE DeclaredNames(n)

\* C10: projecting a Union over primitives only gives the alternatives' type
\* names in declared order, never "integer" together with "number", as a bare
\* string when one name remains and as a list otherwise.
C10_PrimitiveUnionTypeNames ==
    (op = "json_schema" /\ node.t = "Union" /\ OverPrimitivesOnly(node)) =>
        /\ result.status = "ok"
        /\ result.doc.type.names = CollapsedNames(node)
        /\ result.doc.type.bare = (Len(CollapsedNames(node)) = 1)

-----------------------------------------------------------------------------
(* Properties of the tool loop.                                            *)

\* What the run does when the retries on invalid output are used up: the
\* model has been called N + 1 times and no more, and the run has ended with
\* the first validation error of the last response.
ExhaustsRetries ==
    /\ run.model_calls <= run.N + 1
    /\ run.pc # "returned"
    /\ run.pc = "calling" => run.model_calls <= run.N
    /\ run.pc = "raised" =>
          /\ run.model_calls = run.N + 1
          /\ run.raised = Exc("SchemaValidationError", seen.first_failing)

-----------------------------------------------------------------------------
(* Properties of OpenAIModel.reply.                                        *)

\* The failures an attempt may follow.
MayRetryAfter(e) ==
    \/ e = "ServiceUnvailableError"
    \/ request.retry_on_request_limit /\ e = "RateLimitError"

\* C8: reply calls the endpoint at most num_retries + 1 times and returns the
\* first successful response; an attempt follows a failed one only if that
\* one failed with a service-unavailable error or, with retry_on_request_limit
\* set, a rate-limit error; any other failure propagates at once, so after
\* exactly one attempt when it is the first.
C8_RetryPolicy ==
    LET a == request.attempts
        n == Len(request.attempts)
    IN  request.pc # "idle" =>
            /\ n <= request.num_retries + 1
            /\ \A j \in 1..(n - 1) : MayRetryAfter(a[j])
            /\ request.pc = "attempting" => n <= request.num_retries
            /\ (n >= 1 /\ a[n] = "ok") => request.pc = "returned"
            /\ (n >= 1 /\ a[n] # "ok" /\ ~MayRetryAfter(a[n])) =>
                  request.pc = "raised" /\ request.raised = a[n]
            /\ (n >= 1 /\ a[1] # "ok" /\ ~MayRetryAfter(a[1])) => n = 1
            /\ request.pc = "returned" => n >= 1 /\ a[n] = "ok"
            /\ request.pc = "raised" =>
                  /\ n >= 1
                  /\ request.raised = a[n]
                  /\ a[n] # "ok"
                  /\ ~MayRetryAfter(a[n]) \/ n = request.num_retries + 1

\* Two retried failures, one of each kind, and then the response.
C8_Witness ==
    /\ request.pc = "returned"
    /\ request.attempts = <<"RateLimitError", "ServiceUnvailableError", "ok">>

-----------------------------------------------------------------------------
(* Properties of the projection of optional unions and of Object nodes.    *)

\* A Union of two options, one of them the null arm and the other a node.
OptionalOfOne(n) ==
    /\ n.t = "Union"
    /\ Len(n.options) = 2
    /\ Cardinality({j \in 1..2 : n.options[j] = NoneOption}) = 1
TheAlternative(n) == n.options[CHOOSE j \in 1..2 : n.options[j] # NoneOption]
TypeNames(doc) == IF "type" \in DOMAIN doc THEN Range(doc.type.names) ELSE {}

\* C11: projecting a Union of a null arm and exactly one real alternative
\* gives exactly what the alternative gives under the same parent hint (the
\* same document, or the same failure), and the document never names null.
C11_OptionalSingletonUnwraps ==
    (op = "json_schema" /\ OptionalOfOne(node)) =>
        /\ result = JsonSchema(TheAlternative(node), hint)
        /\ result.status = "ok" => "null" \notin TypeNames(result.doc)

\* Optional[list[int]] projected under a hint: the array document, described.
C11_Witness ==
    /\ op = "json_schema"
    /\ node = UnionNode(<<NoneOption, SequenceNode(PrimitiveNode("int"))>>)
    /\ hint = Hint("The x.")
    /\ result = Projected([type |-> Bare("array"),
                           items |-> [type |-> Bare("integer")],
                           description |-> "The x."])

\* The non-empty ones among a parent hint and an own hint, parent first.
NonEmptyHints(parent, own) ==
    (IF parent.some /\ parent.text # "" THEN <<parent.text>> ELSE <<>>)
    \o (IF own.some /\ own.text # "" THEN <<own.text>> ELSE <<>>)
ExpectedDescription(parent, own) ==
    IF Len(NonEmptyHints(parent, own)) = 2
    THEN NonEmptyHints(parent, own)[1] \o "\n\n" \o NonEmptyHints(parent, own)[2]
    ELSE NonEmptyHints(parent, own)[1]
IsRequired(f) == f.required
NamesOf(fs) == [j \in DOMAIN fs |-> fs[j].name]
FieldsProject(n) ==
    \A j \in DOMAIN n.fields : JsonSchema(n.fields[j].schema, n.fields[j].hint).status = "ok"

\* C12: the projection of an Object node whose fields all project is the
\* document of type "object" with one properties entry per field (the field's
\* schema projected under the field's hint), `required` the names of the
\* required fields in field order, and `description` the non-empty ones of
\* parent hint and own hint joined by a blank line, parent first; there is no
\* `description` key when neither hint is non-empty.
C12_ObjectProjection ==
    (op = "json_schema" /\ node.t = "Object" /\ FieldsProject(node)) =>
        /\ result.status = "ok"
        /\ result.doc.type = Bare("object")
        /\ result.doc.properties =
              [j \in DOMAIN node.fields |->
                  [name |-> node.fields[j].name,
                   schema |-> JsonSchema(node.fields[j].schema, node.fields[j].hint).doc]]
        /\ result.doc.required = NamesOf(SelectSeq(node.fields, IsRequired))
        /\ IF NonEmptyHints(hint, node.hint) = <<>>
           THEN DOMAIN result.doc = {"type", "properties", "required"}
           ELSE /\ DOMAIN result.doc = {"type", "properties", "required", "description"}
                /\ result.doc.description = ExpectedDescription(hint, node.hint)

\* A documented object projected under a parent hint: both hints joined.
C12_Witness ==
    /\ op = "json_schema"
    /\ node \in HintedObjects
    /\ node.hint = Hint("G.")
    /\ node.fields[1].hint = Hint("The a.")
    /\ hint = Hint("The x.")
    /\ result.status = "ok"
    /\ result.doc.description = "The x.\n\nG."
    /\ result.doc.required = <<"a">>
    /\ result.doc.properties[1].schema = [type |-> Bare("integer"), description |-> "The a."]
    /\ result.doc.properties[2].schema = [type |-> Bare("string"), description |-> "The b."]

-----------------------------------------------------------------------------
(* Properties of CallableSchema.                                           *)

EnvelopeKey(flavor) == IF flavor = "openai" THEN "parameters" ELSE "input_schema"
FlavoredCalls ==
    {j \in DOMAIN callable.calls :
        /\ callable.calls[j].op = "callable_json_schema"
        /\ callable.calls[j].flavor.flavor \in {"openai", "anthropic"}}
\* The call schema's Object projection with the node's own hint removed.
Enveloped == JsonSchema([callable.extracted.call_schema EXCEPT !.hint = NoHint], NoHint)
TopDescription(include_long_description) ==
    NonEmptyHints(callable.extracted.call_schema.hint,
                  IF include_long_description THEN callable.extracted.long_description
                  ELSE NoHint)
\* A document without its envelope key.
Unwrapped(doc, key) == [k \in DOMAIN doc \ {key} |-> doc[k]]

\* C13: json_schema gives {name, parameters} for OPENAI and {name,
\* input_schema} for ANTHROPIC, the same but for that key; under the key is
\* the call schema's Object projection without the node's own hint, and the
\* top-level description is the call-schema hint followed, only when
\* include_long_description is set, by the long description, joined by a
\* blank line, and absent when that text is empty.
C13_CallableEnvelope ==
    callable.pc = "ready" =>
        /\ \A j \in FlavoredCalls :
              LET c == callable.calls[j]
                  key == EnvelopeKey(c.flavor.flavor)
                  text == TopDescription(c.flavor.include_long_description)
              IN  /\ c.out.status = Enveloped.status
                  /\ c.out.status = "ok" =>
                        /\ DOMAIN c.out.doc \ {"description"} = {"name", key}
                        /\ c.out.doc.name = callable.extracted.call_schema.name
                        /\ c.out.doc[key] = Enveloped.doc
                        /\ "description" \notin DOMAIN c.out.doc[key]
                        /\ IF text = <<>> THEN "description" \notin DOMAIN c.out.doc
                           ELSE /\ "description" \in DOMAIN c.out.doc
                                /\ c.out.doc.description =
                                      ExpectedDescription(
                                          callable.extracted.call_schema.hint,
                                          IF c.flavor.include_long_description
                                          THEN callable.extracted.long_description
                                          ELSE NoHint)
        /\ \A i, j \in FlavoredCalls :
              LET a == callable.calls[i]
                  b == callable.calls[j]
              IN  (/\ a.out.status = "ok" /\ b.out.status = "ok"
                   /\ a.flavor.include_long_description = b.flavor.include_long_description)
                  => /\ Unwrapped(a.out.doc, EnvelopeKey(a.flavor.flavor))
                          = Unwrapped(b.out.doc, EnvelopeKey(b.flavor.flavor))
                     /\ a.out.doc[EnvelopeKey(a.flavor.flavor)]
                          = b.out.doc[EnvelopeKey(b.flavor.flavor)]

\* Both flavors asked of one documented schema, long description included.
C13_Witness ==
    /\ callable.pc = "ready"
    /\ Len(callable.calls) = 2
    /\ callable.extracted.call_schema.hint = Hint("G.")
    /\ callable.extracted.long_description = Hint("Long description.")
    /\ callable.calls[1].flavor = [flavor |-> "openai", include_long_description |-> TRUE]
    /\ callable.calls[2].flavor = [flavor |-> "anthropic", include_long_description |-> TRUE]
    /\ callable.calls[1].out.status = "ok"
    /\ callable.calls[1].out.doc.description = "G.\n\nLong description."
    /\ "parameters" \in DOMAIN callable.calls[1].out.doc
    /\ "input_schema" \in DOMAIN callable.calls[2].out.doc

SameCall(a, b) == a.op = b.op /\ a.flavor = b.flavor /\ a.value = b.value /\ a.hint = b.hint

\* C14: whatever json_schema and eval calls have been made on a Callable
\* Schema, CallableSchema.json_schema included, the schema equals what
\* extraction returned, and a call repeated with the same arguments gives
\* the same outcome.
C14_SchemaNeverChanges ==
    callable.pc = "ready" =>
        /\ callable.schema = callable.extracted
        /\ \A i, j \in DOMAIN callable.calls :
              SameCall(callable.calls[i], callable.calls[j])
                  => callable.calls[i].out = callable.calls[j].out

\* The same projection asked twice of a schema with a call-schema hint.
C14_Witness ==
    /\ callable.pc = "ready"
    /\ Len(callable.calls) = 2
    /\ Truthy(callable.extracted.call_schema.hint)
    /\ callable.calls[1].op = "callable_json_schema"
    /\ callable.calls[1].flavor = [flavor |-> "openai", include_long_description |-> TRUE]
    /\ callable.calls[1].out.status = "ok"
    /\ SameCall(callable.calls[1], callable.calls[2])
    /\ callable.schema.call_schema.hint = callable.extracted.call_schema.hint

-----------------------------------------------------------------------------
(* Properties of normalize_annotation.                                     *)

\* C20: normalize_annotation is idempotent: for every supported annotation and
\* both values of concretize, applying it to what it returned succeeds and
\* returns the same annotation.
C20_NormalizeIdempotent == norm.pc = "twice" => norm.second = norm.first

-----------------------------------------------------------------------------
(* Properties of SchemaExtractor.                                          *)

\* What the j-th function of the list the extraction ran on gives for the
\* extracted callable.
Answer(j) == ApplyFn(extraction.used[j], extraction.target)
ReturnsEmpty(j) == Answer(j) = Returned(Nothing)
ReturnsSchema(j) == Answer(j).status = "ok" /\ Answer(j).schema # Nothing

\* C15: extract_schema consults the extraction functions in list order and
\* returns the result of the first one that returns a non-empty result; no
\* later function is then called and the signature is not inspected.  The
\* signature and docstring are inspected only when every function returned
\* empty.
C15_FirstStrategyWins ==
    extraction.pc = "done" =>
        /\ extraction.outcome.consulted
              = SubSeq(extraction.used, 1, Len(extraction.outcome.consulted))
        /\ \A j \in 1..(Len(extraction.outcome.consulted) - 1) : ReturnsEmpty(j)
        /\ \A j \in DOMAIN extraction.used :
              (ReturnsSchema(j) /\ \A i \in 1..(j - 1) : ReturnsEmpty(i)) =>
                  /\ extraction.outcome.status = "ok"
                  /\ extraction.outcome.schema = Answer(j).schema
                  /\ Len(extraction.outcome.consulted) = j
                  /\ ~extraction.outcome.introspected
        /\ extraction.outcome.introspected <=> \A j \in DOMAIN extraction.used : ReturnsEmpty(j)

\* The first of two functions that both know the callable answered, after one
\* that returned empty.
C15_Witness ==
    /\ extraction.pc = "done"
    /\ Len(extraction.used) = 3
    /\ ReturnsEmpty(1) /\ ReturnsSchema(2) /\ ReturnsSchema(3)
    /\ extraction.outcome.schema = Answer(2).schema
    /\ Len(extraction.outcome.consulted) = 2

\* C16: the list of extraction functions of an extractor is complete when its
\* construction finishes and no operation changes it afterwards, so every
\* extraction run on the extractor consults the same functions in the same
\* order.
C16_StrategyListFixed ==
    extraction.pc # "idle" =>
        /\ extraction.exctractor_fns = extraction.constructed
        /\ extraction.pc = "done" => extraction.used = extraction.constructed

\* The j-th function raised after every function before it returned empty.
FirstRaising(j) == Answer(j).status # "ok" /\ \A i \in 1..(j - 1) : ReturnsEmpty(i)
AllEmpty == \A j \in DOMAIN extraction.used : ReturnsEmpty(j)
\* The extraction raised SchemaExtractionError from e, naming the callable.
Surfaces(e) ==
    /\ extraction.outcome.status = "SchemaExtractionError"
    /\ extraction.outcome.cause = e
    /\ extraction.outcome.named = extraction.target.name
    /\ extraction.outcome.schema = NoSchema
\* The annotations of the signature the extraction reads, the return
\* annotation first.
AnnotationsRead ==
    {SignatureOf(extraction.target).return_annotation}
    \cup {SignatureOf(extraction.target).parameters[j].annotation :
            j \in DOMAIN SignatureOf(extraction.target).parameters}
Unsupported(a) == AnnotatedSchema(extraction.used, a).status # "ok"

\* C17 as stated: every failure inside extract_schema surfaces as a
\* SchemaExtractionError that names the callable and chains the cause;
\* no other exception type escapes and no partial schema is returned.
C17_EveryFailureWrapped ==
    extraction.pc = "done" =>
        /\ \A j \in DOMAIN extraction.used : FirstRaising(j) => Surfaces(Answer(j).status)
        /\ extraction.outcome.status \in {"ok", "SchemaExtractionError"}
        /\ extraction.outcome.status # "ok" => extraction.outcome.schema = NoSchema

\* C17 amended: every failure that is an instance of Exception - a raising
\* extraction function, an unreadable signature, a docstring that does not
\* parse, an unsupported annotation or a wrong number of type arguments, in
\* the callable or in a class it names - surfaces as a SchemaExtractionError
\* that names the callable and chains the cause, and no schema is returned;
\* an exception that is no instance of Exception passes through as it is.
C17_ExceptionsWrapped ==
    extraction.pc = "done" =>
        /\ \A j \in DOMAIN extraction.used :
              FirstRaising(j) =>
                  IF Answer(j).status \in BaseExceptionsOnly
                  THEN extraction.outcome.status = Answer(j).status
                  ELSE Surfaces(Answer(j).status)
        /\ (AllEmpty /\ SignatureOf(extraction.target).status # "ok")
              => Surfaces(SignatureOf(extraction.target).status)
        /\ (AllEmpty /\ SignatureOf(extraction.target).status = "ok"
                /\ extract_hints(extraction.target).status # "ok")
              => Surfaces("ParseError")
        /\ (AllEmpty /\ SignatureOf(extraction.target).status = "ok"
                /\ \E a \in AnnotationsRead : Unsupported(a))
              => /\ extraction.outcome.status \in {"SchemaExtractionError"} \cup BaseExceptionsOnly
                 /\ extraction.outcome.status = "SchemaExtractionError"
                       => extraction.outcome.named = extraction.target.name
        /\ extraction.outcome.status \in {"ok", "SchemaExtractionError"} \cup BaseExceptionsOnly
        /\ extraction.outcome.status # "ok" <=> extraction.outcome.schema = NoSchema

\* The extraction of a class named by an annotation failed, and the failure
\* surfaced for the callable with the nested SchemaExtractionError as its
\* cause.
C17_Witness ==
    /\ extraction.pc = "done"
    /\ AllEmpty
    /\ \E a \in AnnotationsRead : a = Class("Broken")
    /\ Surfaces("SchemaExtractionError")

\* A docstring documents a parameter when it gives it a non-empty description.
Documents(doc, name) ==
    \E j \in DOMAIN doc.params : doc.params[j].arg_name = name /\ Truthy(doc.params[j].description)
DescriptionIn(doc, name) ==
    doc.params[CHOOSE j \in DOMAIN doc.params :
                  /\ doc.params[j].arg_name = name /\ Truthy(doc.params[j].description)
                  /\ \A i \in DOMAIN doc.params :
                        (doc.params[i].arg_name = name /\ Truthy(doc.params[i].description)) => i <= j
              ].description
\* A class whose schema came from its signature and docstrings.
ClassIntrospected ==
    /\ extraction.pc = "done"
    /\ extraction.target.cls
    /\ extraction.outcome.status = "ok"
    /\ extraction.outcome.introspected

\* C18: for a class, the short and long descriptions of the class docstring
\* take precedence over those of __init__, and a parameter documented by the
\* class docstring keeps that hint: the hint of __init__ is used only for a
\* parameter the class docstring does not document.
C18_ClassHintsTakePrecedence ==
    ClassIntrospected =>
        /\ extraction.outcome.schema.call_schema.hint
              = HintOr(extraction.target.doc.short_description,
                       extraction.target.init_doc.short_description)
        /\ extraction.outcome.schema.long_description
              = HintOr(extraction.target.doc.long_description,
                       extraction.target.init_doc.long_description)
        /\ \A j \in DOMAIN extraction.outcome.schema.call_schema.fields :
              extraction.outcome.schema.call_schema.fields[j].hint
                 = IF Documents(extraction.target.doc,
                                extraction.outcome.schema.call_schema.fields[j].name)
                   THEN DescriptionIn(extraction.target.doc,
                                      extraction.outcome.schema.call_schema.fields[j].name)
                   ELSE IF Documents(extraction.target.init_doc,
                                     extraction.outcome.schema.call_schema.fields[j].name)
                        THEN DescriptionIn(extraction.target.init_doc,
                                           extraction.outcome.schema.call_schema.fields[j].name)
                        ELSE NoHint

\* The parameters a caller passes, in declaration order: those of the
\* signature, which for a class leaves self out, and those of __init__ after
\* self when the callable has no signature of its own.
NonImplicit(target) ==
    IF target.signature.status = "ok" THEN target.signature.parameters
    ELSE Tail(target.init_signature.parameters)
ReturnAnnotation(target) ==
    IF target.signature.status = "ok" THEN target.signature.return_annotation
    ELSE target.init_signature.return_annotation
\* A schema that came from the signature and docstrings of the callable.
Introspected ==
    /\ extraction.pc = "done"
    /\ extraction.outcome.status = "ok"
    /\ extraction.outcome.introspected

\* C19: for a callable handled by standard introspection the call schema has
\* exactly one field per non-implicit parameter, in declaration order, named
\* after the parameter and required exactly when the parameter has no default;
\* an unannotated parameter has an Undefined schema, and a missing return
\* annotation gives an Undefined return schema.
C19_FieldPerParameter ==
    Introspected =>
        /\ Len(extraction.outcome.schema.call_schema.fields) = Len(NonImplicit(extraction.target))
        /\ \A j \in DOMAIN NonImplicit(extraction.target) :
              /\ extraction.outcome.schema.call_schema.fields[j].name
                    = NonImplicit(extraction.target)[j].name
              /\ extraction.outcome.schema.call_schema.fields[j].required
                    = ~NonImplicit(extraction.target)[j].has_default
              /\ NonImplicit(extraction.target)[j].annotation = Empty
                    => extraction.outcome.schema.call_schema.fields[j].schema = UndefinedNode
        /\ ReturnAnnotation(extraction.target) = Empty
              => extraction.outcome.schema.return_schema = UndefinedNode

\* A class without a signature of its own, with an annotated parameter without
\* a default and an unannotated one with a default after self.
C19_Witness ==
    /\ Introspected
    /\ extraction.target.signature.status = "ValueError"
    /\ Len(extraction.outcome.schema.call_schema.fields) = 2
    /\ extraction.outcome.schema.call_schema.fields[1].required
    /\ extraction.outcome.schema.call_schema.fields[1].schema = PrimitiveNode("int")
    /\ ~extraction.outcome.schema.call_schema.fields[2].required
    /\ extraction.outcome.schema.call_schema.fields[2].schema = UndefinedNode
    /\ extraction.outcome.schema.return_schema = UndefinedNode

-----------------------------------------------------------------------------
(* Properties of normalize_annotation: Literal arms and concretization.   *)

\* The arms of an annotation: the members of a union, or the annotation.
Arms(a) == IF a.k \in {"Union", "UnionType"} THEN a.args ELSE <<a>>
IsLiteral(a) == a.k = "Literal"
IsOther(a) == a.k # "Literal"
RECURSIVE Values(_)
\* The values of the Literal arms, concatenated in order.
Values(arms) ==
    IF arms = <<>> THEN <<>>
    ELSE (IF IsLiteral(Head(arms)) THEN Head(arms).args ELSE <<>>) \o Values(Tail(arms))
SeveralLiterals(a) == Len(SelectSeq(Arms(a), IsLiteral)) >= 2

\* C21: normalizing a union that has several Literal arms, at any nesting
\* depth of unions, yields a single Literal arm whose values are the
\* concatenation of the arms' values with duplicates removed, in order of
\* first occurrence, joined with the non-literal arms left as they were.
C21_LiteralArmsMerged ==
    (norm.pc # "idle" /\ SeveralLiterals(norm.annotation)) =>
        /\ norm.first.status = "ok"
        /\ SelectSeq(Arms(norm.first.ann), IsLiteral)
              = <<Literal(Dedup(Values(Arms(norm.annotation))))>>
        /\ SelectSeq(Arms(norm.first.ann), IsOther)
              = SelectSeq(Arms(norm.annotation), IsOther)

Abstract == DOMAIN ABSTRACT_TO_CONCRETE
Named(a) == a.k \in {"class", "generic", "typing"}
RECURSIVE Origins(_)
\* The origins an annotation holds, at every depth.
Origins(a) ==
    (IF a.k \in {"generic", "typing"} THEN {a.name} ELSE {})
    \cup UNION {Origins(a.args[j]) : j \in DOMAIN a.args}
RECURSIVE Names(_)
\* The classes an annotation holds, as origins or bare.
Names(a) ==
    (IF Named(a) THEN {a.name} ELSE {})
    \cup UNION {Names(a.args[j]) : j \in DOMAIN a.args}
RECURSIVE Erase(_)
\* An annotation with every abstract class read as its concrete counterpart:
\* two annotations with the same image differ in nothing else.  (Members of
\* a union that become the same are one member.)
Erase(a) ==
    IF a.k \in {"Union", "UnionType"}
    THEN PyUnion(a.k, Dedup([j \in DOMAIN a.args |-> Erase(a.args[j])]))
    ELSE [k |-> a.k,
          name |-> IF Named(a) /\ a.name \in Abstract THEN ABSTRACT_TO_CONCRETE[a.name]
                   ELSE a.name,
          args |-> [j \in DOMAIN a.args |-> Erase(a.args[j])]]

\* C22: with concretize=True normalize_annotation replaces every abstract
\* container origin of the table, at every nesting depth, by its concrete
\* counterpart, keeping the normalized type arguments and every other origin
\* as they are; with concretize=False no origin is replaced.
C22_AbstractOriginsConcretized ==
    norm.pc # "idle" =>
        /\ (norm.concretize /\ Origins(norm.annotation) \cap Abstract # {}) =>
              /\ norm.first.status = "ok"
              /\ Origins(norm.first.ann) \cap Abstract = {}
        /\ norm.first.status = "ok" =>
              /\ Erase(norm.first.ann)
                    = Erase(normalize_annotation(norm.annotation, FALSE).ann)
              /\ ~norm.concretize => Names(norm.first.ann) = Names(norm.annotation)

-----------------------------------------------------------------------------
(* Properties of ObjectNode.eval: the constructors called before a failure. *)

\* C26: when ObjectNode.eval fails with SchemaValidationError, no constructor
\* has been invoked during that evaluation: not the node's own and not that
\* of any nested Object node.
C26_ValidationFailureCallsNothing ==
    (ObjectEvaluated /\ result.status = "SchemaValidationError") => result.calls = <<>>

-----------------------------------------------------------------------------
(* Properties of one turn of the tool loop.  They are stated on the state  *)
(* before the turn, the response of the model and the state after it.      *)

TurnTaken == run.model_calls > 0
Invocations == turn.response.message.tool_invocations
\* What evaluating each invocation of the response gives, taken alone.
TurnOutcomes == Outcomes(turn.response, turn.before.tool_params)
\* The response is handled as tool calls: it is no plain-text answer and no
\* truncated or filtered output.
AsToolCalls ==
    \/ turn.response.finish_reason = "tool_call"
    \/ turn.response.finish_reason = "stop" /\ ~turn.before.allow_plain_text_response
FailsValidation(j) == TurnOutcomes[j] = "SchemaValidationError"
\* A submit_response invocation that evaluates successfully.
FinalAt(j) == TurnOutcomes[j] = "ok" /\ Invocations[j].name = RESPONSE_TOOL_NAME
\* An invocation whose evaluation raises something else than a validation
\* error: an unknown tool, an unsupported schema, an exception of the tool.
AbortsAt(j) == TurnOutcomes[j] \notin {"ok", "SchemaValidationError"}
Appended == SubSeq(state.messages, Len(turn.before.messages) + 1, Len(state.messages))

\* The response is handled as tool calls, none of its invocations is a final
\* answer or aborts the run, and at least one fails validation.
CollectsFailures == Collects(turn.response, turn.before, TurnOutcomes)

RetriesLeft == state.max_retries_on_invalid_output
RetriesBefore == turn.before.max_retries_on_invalid_output

\* In every turn the retry count stays within 0..N and does not increase.
RetriesMonotone == RetriesLeft \in 0..RetriesBefore /\ RetriesBefore <= run.N

\* C28 as stated: the remaining retry count is never negative and never
\* increases; it decreases by exactly 1 for each response that contains at
\* least one invocation failing validation, the run ending with the error when
\* none is left, and is left unchanged by every other response.
C28_EveryFailingResponseTakesARetry ==
    TurnTaken =>
        /\ RetriesMonotone
        /\ IF \E j \in DOMAIN Invocations : FailsValidation(j)
           THEN IF RetriesBefore = 0 THEN run.raised.type = "SchemaValidationError"
                ELSE RetriesLeft = RetriesBefore - 1
           ELSE RetriesLeft = RetriesBefore

\* C28 amended: the count decreases by exactly 1, however many invocations
\* fail, for each response that is handled as tool calls, holds an invocation
\* failing validation and holds neither a successful submit_response nor an
\* invocation that aborts the run; with none left such a response ends the
\* run with the validation error.  Every other response leaves the count
\* unchanged.  The responses tolerated are N minus the count, at most N.
C28_CollectedFailuresTakeARetry ==
    TurnTaken =>
        /\ RetriesMonotone
        /\ turn.tolerated = run.N - RetriesLeft
        /\ IF CollectsFailures
           THEN IF RetriesBefore = 0
                THEN run.pc = "raised" /\ run.raised.type = "SchemaValidationError"
                ELSE RetriesLeft = RetriesBefore - 1 /\ run.pc = "calling"
           ELSE RetriesLeft = RetriesBefore

\* A response with two failing invocations took one retry of two, and a later
\* valid response did not give it back.
C28_Witness ==
    /\ run.N = 2 /\ run.model_calls = 2 /\ run.pc = "calling"
    /\ RetriesBefore = 1 /\ RetriesLeft = 1
    /\ turn.tolerated = 1
    /\ \A j \in DOMAIN Invocations : TurnOutcomes[j] = "ok"
    /\ \E m \in DOMAIN state.messages :
          /\ Len(state.messages[m].tool_invocations) = 2
          /\ \A j \in 1..2 :
                Outcome(state.messages[m].tool_invocations[j], state.tool_params)
                    = "SchemaValidationError"

\* The first invocation that is a successful submit_response, and its value.
Finals == {j \in DOMAIN Invocations : FinalAt(j)}
FirstFinal == FirstOf(Finals)
FinalValue ==
    CallableSchema_eval(get_tool(turn.before.tool_params, RESPONSE_TOOL_NAME),
                        Invocations[FirstFinal].arguments).val
\* Invoke_tools reaches a submit_response invocation that evaluates
\* successfully: nothing listed before it aborts the run.
ReachesFinal ==
    /\ TurnTaken /\ AsToolCalls
    /\ Finals # {}
    /\ \A j \in 1..(FirstFinal - 1) : ~AbortsAt(j)

\* C29: the invocations of one assistant message are evaluated in listed
\* order, and evaluation stops at the first submit_response invocation that
\* evaluates successfully: the later invocations are never evaluated, the
\* tool messages and validation errors collected before it are discarded
\* (nothing but the assistant message is appended and no retry is taken),
\* and its value becomes the result.
C29_FirstFinalResponseWins ==
    ReachesFinal =>
        /\ turn.evaluated = [j \in 1..FirstFinal |-> Invocations[j].invocation_id]
        /\ run.raised = NoExc
        /\ state.result = FinalValue
        /\ Appended = <<turn.response.message>>
        /\ RetriesLeft = RetriesBefore

\* A valid submit_response listed after an invocation that failed validation,
\* and one listed before an invocation of an unknown tool.
C29_Witness ==
    /\ ReachesFinal
    /\ Len(Invocations) = 2
    /\ \/ FirstFinal = 2 /\ FailsValidation(1)
       \/ FirstFinal = 1 /\ AbortsAt(2)
    /\ run.pc = "returned"

\* The first invocation whose evaluation raises something else than a
\* validation error, reached by invoke_tools: no successful submit_response
\* is listed before it.
Aborts == {j \in DOMAIN Invocations : AbortsAt(j)}
FirstAbort == FirstOf(Aborts)
ReachesAbort ==
    /\ TurnTaken /\ AsToolCalls
    /\ Aborts # {}
    /\ \A j \in 1..(FirstAbort - 1) : ~FinalAt(j)

\* C30: an invocation naming a tool that is not in tool_params (KeyError),
\* an UnsupportedSchemaError raised by the evaluation, or an exception raised
\* by the invoked tool ends call_and_use_tools with that exception at once,
\* whatever the retry count and whatever failed validation before it: no
\* message is appended and the model is not called again.
C30_OtherErrorsAbort ==
    ReachesAbort =>
        /\ run.pc = "raised"
        /\ run.raised = Exc(TurnOutcomes[FirstAbort], Invocations[FirstAbort].invocation_id)
        /\ run.raised.type \in {"KeyError", "UnsupportedSchemaError", "ConstructorError"}
        /\ state = turn.before
        /\ turn.evaluated
              = [j \in 1..(IF run.raised.type = "KeyError" THEN FirstAbort - 1 ELSE FirstAbort) |->
                    Invocations[j].invocation_id]

\* An unknown tool listed after an invocation that failed validation, with
\* retries left, and a tool raising with none left.
C30_Witness ==
    /\ ReachesAbort
    /\ FirstAbort = 2 /\ FailsValidation(1)
    /\ \/ RetriesBefore > 0 /\ run.raised.type = "KeyError"
       \/ RetriesBefore = 0 /\ run.raised.type = "ConstructorError"

\* A STOP response when plain-text responses are allowed.
PlainTextAnswer ==
    /\ TurnTaken
    /\ turn.response.finish_reason = "stop"
    /\ turn.before.allow_plain_text_response

\* C25: call_and_use_tools returns right after the first response that
\* carries a final answer, with the evaluated value of the submit_response
\* invocation or with the content of the plain-text response, and calls the
\* model no more; this for every such value, None included.
C25_FinalAnswerEndsRun ==
    /\ ReachesFinal => run.pc = "returned" /\ state.result = FinalValue
    /\ PlainTextAnswer =>
          run.pc = "returned" /\ state.result = turn.response.message.content

\* Every invocation of the response names another tool than submit_response.
AllOrdinary ==
    /\ TurnTaken
    /\ Invocations # <<>>
    /\ \A j \in DOMAIN Invocations : Invocations[j].name # RESPONSE_TOOL_NAME
\* The tool message that answers the j-th invocation: the string form of the
\* tool's result, or the text of the validation error.
Answering(j) ==
    ToolMessage(Invocations[j].invocation_id,
                IF FailsValidation(j) THEN JStr(ErrorText("SchemaValidationError"))
                ELSE JStr(PyStr(CallableSchema_eval(
                                    get_tool(turn.before.tool_params, Invocations[j].name),
                                    Invocations[j].arguments).val)))
\* The model is called again, with the previous conversation, the assistant
\* message and one tool message for each invocation, in order.
CalledAgainWithAnswers ==
    /\ run.pc = "calling"
    /\ state.messages
          = turn.before.messages \o <<turn.response.message>>
            \o [j \in DOMAIN Invocations |-> Answering(j)]

\* C24 as stated: after a response whose k invocations are all ordinary
\* tools, the model is called again with the previous conversation, then the
\* assistant message, then exactly k tool messages, one for each invocation
\* in order, each with its invocation's id and the string form of the tool's
\* result or the text of the validation error.
C24_ToolMessagesFedBack == AllOrdinary => CalledAgainWithAnswers

\* C24 amended: the same for a response that is handled as tool calls and
\* whose invocations all name tools of tool_params and either evaluate
\* successfully or fail validation, a retry being left when one fails.
C24_CollectedToolMessagesFedBack ==
    (/\ AllOrdinary /\ AsToolCalls
     /\ \A j \in DOMAIN Invocations : ~AbortsAt(j)
     /\ (\E j \in DOMAIN Invocations : FailsValidation(j)) => RetriesBefore > 0)
    => CalledAgainWithAnswers

\* Two invocations, the first failing validation and the second answered
\* with its result, fed back in that order.
C24_Witness ==
    /\ AllOrdinary /\ AsToolCalls
    /\ Len(Invocations) = 2
    /\ FailsValidation(1) /\ TurnOutcomes[2] = "ok"
    /\ run.pc = "calling"
    /\ Len(state.messages) = Len(turn.before.messages) + 3
    /\ state.messages[Len(state.messages)] = ToolMessage("2", JStr("add(a=1)"))

-----------------------------------------------------------------------------
(* Properties of Runtime._select_model.                                    *)

ModelsNamed(name) == {j \in DOMAIN selection.models : selection.models[j].name = name}
\* The entries of preferred_models that name a model of the runtime.
Matching == {k \in DOMAIN selection.preferred_models : ModelsNamed(selection.preferred_models[k]) # {}}
Selected == selection.pc \in {"running", "raised"} /\ selection.models # <<>>

\* C23: _select_model returns the model of the runtime whose name is the
\* earliest entry of preferred_models that names a model of the runtime, and
\* the first model given to the runtime when no entry does; only the selected
\* model is called during the execution.
C23_EarliestPreferredModelSelected ==
    Selected =>
        /\ selection.pc = "running"
        /\ \E j \in DOMAIN selection.models : selection.models[j] = selection.model
        /\ IF Matching = {} THEN selection.model = selection.models[1]
           ELSE selection.model.name = selection.preferred_models[FirstOf(Matching)]
        /\ \A c \in DOMAIN selection.called : selection.called[c] = selection.model.id

\* The second preferred name selects the second model of the runtime, the
\* first preferred name naming none, and that model has been called twice.
C23_Witness ==
    /\ Selected
    /\ Len(selection.models) = 2
    /\ Len(selection.preferred_models) = 2 /\ Matching = {2}
    /\ selection.model = selection.models[2]
    /\ selection.models[1].name # selection.model.name
    /\ Len(selection.called) = 2

-----------------------------------------------------------------------------
(* Properties of the active Runtime.                                       *)

\* The Runtime most recently entered and not yet exited, None for none.
Innermost ==
    IF context.blocks = <<>> THEN NoRuntime ELSE context.blocks[Len(context.blocks)]

\* C27: for any nesting of entries and exits of Runtime contexts, a Runtime
\* that is already active re-entered included, every exit succeeds, the
\* active runtime is the one most recently entered and not yet exited (so an
\* exit makes the runtime active that was before the matching entry), which
\* is what get_runtime returns, and get_runtime raises ValueError when no
\* Runtime is active.
C27_InnermostRuntimeActive ==
    /\ context.raised = "none"
    /\ context.current = Innermost
    /\ context.got # NotYet => context.got = get_runtime(Innermost)

====
